---- MODULE Spec2Model ----
(***************************************************************************)
(* OkazakiP/ELN: the reactive computation core of src/src/logic.py, wired  *)
(* into one session graph as src/main.py does.                             *)
(*                                                                         *)
(* A table (pandas DataFrame) is a record [columns, rows]: the ordered     *)
(* column labels and the ordered rows, each row a sequence of cells        *)
(* aligned with the labels.  A text cell is a string (None is "None"), a   *)
(* boolean cell is a BOOLEAN and a numeric cell is a pair <<n, d>>: the    *)
(* rational n/d in lowest terms with d > 0, or one of the IEEE specials    *)
(* <<0,0>> (NaN), <<1,0>> (+inf), <<-1,0>> (-inf).  Binary floating point  *)
(* is modelled by exact rational arithmetic.                               *)
(***************************************************************************)
EXTENDS Integers, Sequences, FiniteSets, TLC

\* ------------------------------------------------------------------------
\* Numbers: float64 as exact rationals plus NaN and the infinities
\* ------------------------------------------------------------------------

Abs(n) == IF n < 0 THEN -n ELSE n

Sign(n) == IF n < 0 THEN -1 ELSE IF n > 0 THEN 1 ELSE 0

RECURSIVE GCD(_, _)
GCD(a, b) == IF b = 0 THEN a ELSE GCD(b, a % b)

\* n/d in lowest terms with a positive denominator; d = 0 gives a special.
Norm(n, d) ==
    IF d = 0 THEN <<Sign(n), 0>>
    ELSE LET g == GCD(Abs(n), Abs(d))
             s == IF d < 0 THEN -1 ELSE 1
         IN  <<(s * n) \div g, (s * d) \div g>>

Num(n) == <<n, 1>>

NaN == <<0, 0>>

Inf == <<1, 0>>

IsNaN(x) == x[1] = 0 /\ x[2] = 0

IsInf(x) == x[1] # 0 /\ x[2] = 0

IsFinite(x) == x[2] # 0

IsZero(x) == x[1] = 0 /\ x[2] # 0

\* float addition
Add(x, y) ==
    IF IsNaN(x) \/ IsNaN(y) THEN NaN
    ELSE IF IsInf(x) /\ IsInf(y) THEN (IF x[1] = y[1] THEN x ELSE NaN)
    ELSE IF IsInf(x) THEN x
    ELSE IF IsInf(y) THEN y
    ELSE Norm(x[1] * y[2] + y[1] * x[2], x[2] * y[2])

Neg(x) == <<-x[1], x[2]>>

Sub(x, y) == Add(x, Neg(y))

\* float multiplication: 0 * inf is NaN
Mul(x, y) ==
    IF IsNaN(x) \/ IsNaN(y) THEN NaN
    ELSE IF IsInf(x) \/ IsInf(y)
         THEN (IF x[1] = 0 \/ y[1] = 0 THEN NaN
               ELSE <<Sign(x[1]) * Sign(y[1]), 0>>)
    ELSE Norm(x[1] * y[1], x[2] * y[2])

\* float division as numpy does it: x/0 is +-inf, 0/0 and inf/inf are NaN
Div(x, y) ==
    IF IsNaN(x) \/ IsNaN(y) THEN NaN
    ELSE IF IsInf(x) THEN (IF IsInf(y) THEN NaN
                           ELSE <<x[1] * (IF y[1] < 0 THEN -1 ELSE 1), 0>>)
    ELSE IF IsInf(y) THEN Num(0)
    ELSE IF y[1] = 0 THEN <<Sign(x[1]), 0>>
    ELSE Norm(x[1] * y[2], x[2] * y[1])

\* x < y on floats: every comparison with NaN is false
Less(x, y) ==
    /\ ~IsNaN(x)
    /\ ~IsNaN(y)
    /\ x # y
    /\ IF IsInf(x) THEN x[1] < 0
       ELSE IF IsInf(y) THEN y[1] > 0
       ELSE x[1] * y[2] < y[1] * x[2]

Leq(x, y) == ~IsNaN(x) /\ ~IsNaN(y) /\ (x = y \/ Less(x, y))

AbsNum(x) == <<Abs(x[1]), x[2]>>

RECURSIVE Pow10(_)
Pow10(k) == IF k <= 0 THEN 1 ELSE 10 * Pow10(k - 1)

\* the integer nearest to n/d (d > 0), ties to even
RoundHalfEven(n, d) ==
    LET q == n \div d
        r == n % d
    IN  IF 2 * r < d THEN q
        ELSE IF 2 * r > d THEN q + 1
        ELSE IF q % 2 = 0 THEN q ELSE q + 1

\* numpy.round(x, digit): to the nearest multiple of 10^-digit, ties to even
\* (a negative digit rounds to tens, hundreds, ...)
Round(x, digit) ==
    IF ~IsFinite(x) THEN x
    ELSE IF digit >= 0
         THEN Norm(RoundHalfEven(x[1] * Pow10(digit), x[2]), Pow10(digit))
         ELSE Num(RoundHalfEven(x[1], x[2] * Pow10(-digit)) * Pow10(-digit))

\* ------------------------------------------------------------------------
\* Sequences
\* ------------------------------------------------------------------------

Range(s) == {s[i] : i \in 1..Len(s)}

HasDup(s) == \E i, j \in 1..Len(s) : i < j /\ s[i] = s[j]

RECURSIVE Flat(_)
Flat(ss) == IF ss = <<>> THEN <<>> ELSE Head(ss) \o Flat(Tail(ss))

\* the positions of label c in the labels cols, ascending
Positions(cols, c) == SelectSeq([i \in 1..Len(cols) |-> i], LAMBDA i : cols[i] = c)

Has(cols, c) == \E i \in 1..Len(cols) : cols[i] = c

\* the first position of label c
Pos(cols, c) == CHOOSE i \in 1..Len(cols) : cols[i] = c /\ \A j \in 1..(i - 1) : cols[j] # c

\* numpy sum of a sequence of floats (NaN propagates)
RECURSIVE SumSeq(_)
SumSeq(s) == IF s = <<>> THEN Num(0) ELSE Add(Head(s), SumSeq(Tail(s)))

\* pandas sum(axis=1): missing values are skipped
SumSkipNa(s) == SumSeq(SelectSeq(s, LAMBDA x : ~IsNaN(x)))

\* numpy min / max of a non-empty sequence holding no NaN
RECURSIVE MinSeq(_)
MinSeq(s) ==
    IF Len(s) = 1 THEN s[1]
    ELSE LET m == MinSeq(Tail(s)) IN IF Less(s[1], m) THEN s[1] ELSE m

RECURSIVE MaxSeq(_)
MaxSeq(s) ==
    IF Len(s) = 1 THEN s[1]
    ELSE LET m == MaxSeq(Tail(s)) IN IF Less(m, s[1]) THEN s[1] ELSE m

\* ------------------------------------------------------------------------
\* Tables (pandas DataFrame): [columns |-> labels, rows |-> rows of cells]
\* ------------------------------------------------------------------------

\* `data is None`
NoData == [columns |-> <<>>, rows |-> <<>>]

IsNone(t) == t.columns = <<>>

NRows(t) == Len(t.rows)

\* the columns at positions ps, in that order
Take(t, ps) ==
    [columns |-> [k \in 1..Len(ps) |-> t.columns[ps[k]]],
     rows    |-> [r \in 1..Len(t.rows) |-> [k \in 1..Len(ps) |-> t.rows[r][ps[k]]]]]

\* every label is a column: otherwise df[labels] and df.drop(labels) raise KeyError
HasAll(cols, labels) == \A i \in 1..Len(labels) : Has(cols, labels[i])

\* df[labels]: for each label in turn, every column carrying it
Select(t, labels) ==
    Take(t, Flat([i \in 1..Len(labels) |-> Positions(t.columns, labels[i])]))

\* df.drop(labels, axis=1): every column carrying one of the labels goes
Drop(t, labels) ==
    Take(t, SelectSeq([i \in 1..Len(t.columns) |-> i],
                      LAMBDA i : t.columns[i] \notin Range(labels)))

\* df[label] as a Series: the first column with that label, by row
Column(t, c) == [r \in 1..Len(t.rows) |-> t.rows[r][Pos(t.columns, c)]]

\* pd.concat([a, b], axis=1) of frames on the same index; the frame without
\* columns contributes nothing
ConcatCols(a, b) ==
    IF b.columns = <<>> THEN a
    ELSE IF a.columns = <<>> THEN b
    ELSE [columns |-> a.columns \o b.columns,
          rows    |-> [r \in 1..Len(a.rows) |-> a.rows[r] \o b.rows[r]]]

\* df.reindex(target, axis=1) raises ValueError (cannot reindex on an axis with
\* duplicate labels) unless the labels are unique or already equal the target
ReindexRaises(t, target) == HasDup(t.columns) /\ t.columns # target

\* df.reindex(target, axis=1): each target label takes the column that carries
\* it, a label no column carries becomes a column of NaN
Reindex(t, target) ==
    IF t.columns = target THEN t
    ELSE
    [columns |-> target,
     rows    |-> [r \in 1..Len(t.rows) |->
                    [k \in 1..Len(target) |->
                        IF Has(t.columns, target[k])
                        THEN t.rows[r][Pos(t.columns, target[k])]
                        ELSE NaN]]]

\* frame.op(series, axis=1) aligns the frame's columns with the series' labels;
\* with duplicate labels on either side and the two not identical it raises
AlignRaises(cols, labels) == cols # labels /\ (HasDup(cols) \/ HasDup(labels))

\* the value the series (labels, values) holds for label c, NaN when it has none
Lookup(labels, values, c) == IF Has(labels, c) THEN values[Pos(labels, c)] ELSE NaN

\* the size two array sizes broadcast to, and whether they broadcast at all
BroadcastOk(a, b) == a = b \/ a = 1 \/ b = 1

BroadcastLen(a, b) == IF a = 1 THEN b ELSE a

\* the index into an axis of size n that index i of the broadcast axis reads
BIdx(n, i) == IF n = 1 THEN 1 ELSE i

\* ndarray.reshape can raise: the sizes must agree
ReshapeRaises(n1, n2, m1, m2) == n1 * n2 # m1 * m2

\* a (n1 x n2) array a reshaped to (m1 x m2), row-major: element (i, j)
Reshaped(a, n2, m2, i, j) ==
    LET k == (i - 1) * m2 + (j - 1)
    IN  a[(k \div n2) + 1][(k % n2) + 1]

\* ------------------------------------------------------------------------
\* The session graph.  A world w is a record of every entity of the session
\* (src/main.py, lines 57-65) plus
\*   built: the entities constructed so far (their watchers are registered)
\*   exc:   an exception is propagating out of the current write
\*   log:   the parameter writes and recomputations of the current write
\* param runs the watchers of a parameter synchronously, depth first, in the
\* order in which they were registered, i.e. in which the dependent objects
\* were constructed; an exception raised by a watcher ends the whole write,
\* and what was assigned before it stays assigned.
\* ------------------------------------------------------------------------

Raise(w) == [w EXCEPT !.exc = TRUE]

Called(w, what) == [w EXCEPT !.log = Append(@, what)]

\* method m of entity e, in world w (defined once every method is)
RECURSIVE Run(_, _, _)

\* run watcher m of entity e, if e exists and nothing has been raised
Fire(w, e, m) == IF w.exc \/ e \notin w.built THEN w ELSE Run(w, e, m)

\* assign parameter `field` of entity e (the value is kept even if a watcher
\* raises afterwards)
Assign(w, e, field, v) ==
    [w EXCEPT ![e] = [@ EXCEPT ![field] = v], !.log = Append(@, e \o "." \o field)]

\* a write of a watched parameter: the assignment, then its watchers
Set(w, e, field, v) == Run(Assign(w, e, field, v), e, field)

\* the two chains WeightPremixture -> WorkPreMixture -> ResultPreMixture, each
\* named by its WeightPremixture
WorkOf(k) ==
    IF k = "weightpremixture" THEN "workpremixture" ELSE "own_work_premixture"

ResultOf(k) ==
    IF k = "workpremixture" THEN "result_premixture" ELSE "own_result_premixture"

ChainOf(e) ==
    IF e \in {"weightpremixture", "workpremixture", "result_premixture"}
    THEN "weightpremixture" ELSE "own_weight_premixture"

\* SourceMaterial.weight_percent.set_index('Material')['wt%'] in wt% mode:
\* the stock concentration of each material, labelled by its name
StockLabels(w) == Column(w.material.data, "Material")

\* SourceMaterial.weight_percent raises outside wt% mode: in mM mode it reads
\* data['mM'] and data['g/mol'] (103-110), and make_column gives no table both
SourceMaterial_weight_percent_raises(w) == w.material.unit # "wt%"

\* PreMixture.weight_percent and Composition.weight_percent read
\* material_data.set_index('Material')['g/mol'] in mM mode (250, 396)
MolarMass_raises(w) ==
    w.material.unit # "wt%" /\ ~Has(w.material.data.columns, "g/mol")

\* every material taken as pure, whatever its stock concentration (what the
\* division by the wt% column does not do)
StockValues_pure(w) == [i \in 1..NRows(w.material.data) |-> Num(100)]

StockValues(w) == Column(w.material.data, "wt%")

\* df.set_index(name) ... .reset_index(): the value columns, without the name
Values(t, name) == Drop(t, <<name>>)

\* ------------------------------------------------------------------------
\* Result, ResultPreMixture (logic.py 696-808)
\* ------------------------------------------------------------------------

\* `self.data = data` at the end of Result.calc: nothing in the core watches it
Set_result_data(w, d) == Assign(w, "result", "data", d)

Result_calc(w) ==
    LET w0     == Called(w, "Result.calc")
        work   == w0.work.data
        cnames == w0.composition.names
        mnames == w0.material.names
        pnames == w0.premixture.names
        res    == w0[w0.result.result_premixture].data
        data   == Values(work, "Composition")
        nW     == NRows(data)
        total  == [r \in 1..nW |-> SumSkipNa(data.rows[r])]
        sel    == Select(data, pnames)
        k      == Len(sel.columns)
        npn    == Len(pnames)
        ncn    == Len(cnames)
        selT   == [i \in 1..k |-> [r \in 1..nW |-> sel.rows[r][i]]]
        A(p, c) == Reshaped(selT, nW, ncn, p, c)
        R      == Select(res, mnames)
        nR     == NRows(R)
        nP     == BroadcastLen(npn, nR)
        Term(p, c, m) ==
            LET x == Mul(A(BIdx(npn, p), c), R.rows[BIdx(nR, p)][m])
            IN  IF IsNaN(x) THEN Num(0) ELSE x
        data_premixture(c, m) == SumSeq([p \in 1..nP |-> Term(p, c, m)])
        dm     == Select(data, mnames)
        data_material(c, m) ==
            LET x == Mul(dm.rows[c][m],
                         Lookup(StockLabels(w0), StockValues(w0), dm.columns[m]))
            IN  IF IsNaN(x) THEN Num(0) ELSE x
        out    == [columns |-> <<"Composition">> \o mnames,
                   rows    |-> [c \in 1..ncn |->
                        <<cnames[c]>> \o
                        [m \in 1..Len(mnames) |->
                            Div(Add(data_premixture(c, m), data_material(c, m)),
                                total[c])]]]
    IN  IF \/ IsNone(work)
           \/ ~Has(work.columns, "Composition")
           \/ ~HasAll(data.columns, pnames)
           \/ ReshapeRaises(k, nW, npn, ncn)
           \/ IsNone(res)
           \/ ~HasAll(res.columns, mnames)
           \/ ~BroadcastOk(npn, nR)
           \/ Len(R.columns) # Len(mnames)
           \/ ~HasAll(data.columns, mnames)
           \/ SourceMaterial_weight_percent_raises(w0)
           \/ AlignRaises(dm.columns, StockLabels(w0))
           \/ Column(work, "Composition") # cnames
        THEN Raise(w0)
        ELSE Set_result_data(w0, out)

\* a ResultPreMixture that shows 0 where the quotient is unset, as the
\* fillna(0.) of Result.calc would (what ResultPreMixture.calc does not do)
Set_resultpremixture_data_filled(w, k, d) ==
    Assign(w, ResultOf(WorkOf(k)), "data",
           [d EXCEPT !.rows =
               [r \in 1..NRows(d) |->
                   [j \in 1..Len(d.columns) |->
                       IF j > 1 /\ IsNaN(@[r][j]) THEN Num(0) ELSE @[r][j]]]])

\* k names the chain
Set_resultpremixture_data(w, k, d) == Assign(w, ResultOf(WorkOf(k)), "data", d)

ResultPreMixture_calc(w, k) ==
    LET w0     == Called(w, "ResultPreMixture.calc")
        work   == w0[WorkOf(k)].data
        mnames == w0.material.names
        data   == Values(work, "Premixture")
        total  == [r \in 1..NRows(data) |-> SumSkipNa(data.rows[r])]
        dm     == Select(data, mnames)
        out    == [columns |-> <<"Premixture">> \o dm.columns,
                   rows    |-> [r \in 1..NRows(data) |->
                        <<Column(work, "Premixture")[r]>> \o
                        [m \in 1..Len(dm.columns) |->
                            Div(Mul(dm.rows[r][m],
                                    Lookup(StockLabels(w0), StockValues(w0),
                                           dm.columns[m])),
                                total[r])]]]
    IN  IF \/ IsNone(work)
           \/ ~Has(work.columns, "Premixture")
           \/ ~HasAll(data.columns, mnames)
           \/ SourceMaterial_weight_percent_raises(w0)
           \/ AlignRaises(dm.columns, StockLabels(w0))
        THEN Raise(w0)
        ELSE Set_resultpremixture_data(w0, k, out)

\* ------------------------------------------------------------------------
\* Work, WorkPreMixture (logic.py 633-692)
\* ------------------------------------------------------------------------

\* a write of Work.data, by Work.update_data or by the operator
Set_work_data(w, d) == Set(w, "work", "data", d)

\* data[slice(None)] = np.nan: every value cell becomes unset
Unset(t, name) ==
    [columns |-> <<name>> \o Values(t, name).columns,
     rows    |-> [r \in 1..NRows(t) |->
                    <<Column(t, name)[r]>> \o
                    [m \in 1..Len(Values(t, name).columns) |-> NaN]]]

\* Work.update_data as it would be if it kept what the operator had entered
Work_update_data_keeping(w) ==
    LET w0 == Called(w, "Work.update_data")
        weight_data == w0.weight.data
        old == w0.work.data
        same == ~IsNone(old) /\ old.columns = weight_data.columns
                    /\ NRows(old) = NRows(weight_data)
    IN  IF IsNone(weight_data) \/ ~Has(weight_data.columns, "Composition")
        THEN Raise(w0)
        ELSE Set_work_data(w0, IF same THEN old ELSE Unset(weight_data, "Composition"))

\* Work.update_data as it would be if it also assigned a parameter of
\* SourceMaterial, an entity upstream of Work
Work_update_data_upstream(w) ==
    LET w0 == Called(w, "Work.update_data")
        weight_data == w0.weight.data
    IN  IF IsNone(weight_data) \/ ~Has(weight_data.columns, "Composition")
        THEN Raise(w0)
        ELSE Set_work_data(Assign(w0, "material", "names", w0.material.names),
                           Unset(weight_data, "Composition"))

\* Work.update_data (653-658): the shape of Weight's table, every value unset
Work_update_data(w) ==
    LET w0 == Called(w, "Work.update_data")
        weight_data == w0.weight.data
    IN  IF IsNone(weight_data) \/ ~Has(weight_data.columns, "Composition")
        THEN Raise(w0)
        ELSE Set_work_data(w0, Unset(weight_data, "Composition"))

Set_workpremixture_data(w, k, d) == Set(w, WorkOf(k), "data", d)

WorkPreMixture_update_data(w, k) ==
    LET w0 == Called(w, "WorkPreMixture.update_data")
        weight_data == w0[k].data
    IN  IF IsNone(weight_data) \/ ~Has(weight_data.columns, "Premixture")
        THEN Raise(w0)
        ELSE Set_workpremixture_data(w0, k, Unset(weight_data, "Premixture"))

\* ------------------------------------------------------------------------
\* PreMixture.weight_percent, Composition.weight_percent in wt% mode
\* ------------------------------------------------------------------------

\* PreMixture.weight_percent: data.assign(Solvent = 100 - sum of the materials)
PreMixture_weight_percent_raises(w) ==
    MolarMass_raises(w) \/ ~HasAll(w.premixture.data.columns, w.material.names)

PreMixture_weight_percent(w) ==
    LET data == w.premixture.data
        mat  == Select(data, w.material.names)
    IN  [columns |-> data.columns \o <<"Solvent">>,
         rows    |-> [r \in 1..NRows(data) |->
                        data.rows[r] \o <<Sub(Num(100), SumSkipNa(mat.rows[r]))>>]]

\* Composition.weight_percent: data.drop(premixture_names, axis=1)
Composition_weight_percent_raises(w) ==
    MolarMass_raises(w) \/ ~HasAll(w.composition.data.columns, w.premixture.names)

Composition_weight_percent(w) == Drop(w.composition.data, w.premixture.names)

\* ------------------------------------------------------------------------
\* Weight (logic.py 413-555)
\* ------------------------------------------------------------------------

Set_weight_data(w, d) == Set(w, "weight", "data", d)

\* a boolean cell in arithmetic
BoolNum(b) == IF b THEN Num(1) ELSE Num(0)

\* factor[np.isnan(factor) | (factor == 0.)] = 1.
Sentinel(x) == IF IsNaN(x) \/ IsZero(x) THEN Num(1) ELSE x

\* Weight.calc_premixture(data): data holds the target mass of each material
\* for each composition.  The result is
\*   raises:     the call raises
\*   premixture: per composition, the mass of each material and of Solvent
\*               that the selected premixtures supply
\*   required:   per composition, the mass of each premixture to weigh
Weight_calc_premixture(w, data) ==
    LET cdata  == w.composition.data
        cnames == w.composition.names
        pnames == w.premixture.names
        mnames == w.material.names
        pdata  == w.premixture.data
        pp     == PreMixture_weight_percent(w)
        PM     == Select(pdata, mnames)
        npr    == NRows(pdata)
        ncd    == NRows(data)
        nmd    == Len(data.columns)
        nmp    == Len(PM.columns)
        nmf    == BroadcastLen(nmd, nmp)
        npn    == Len(pnames)
        ncn    == Len(cnames)
        nm     == Len(mnames)
        fmin   == [p \in 1..npr |-> [c \in 1..ncd |->
                     MinSeq([m \in 1..nmf |->
                        Sentinel(Div(data.rows[c][BIdx(nmd, m)],
                                     PM.rows[p][BIdx(nmp, m)]))])]]
        factor(p, c) == Reshaped(fmin, ncd, ncn, p, c)
        cont   == Drop(pp, <<"Premixture", "TotalWeight">>)
        q      == Len(cont.columns)
        content(p, j) == Reshaped(cont.rows, q, nm + 1, p, j)
        sel    == Select(cdata, pnames)
        kp     == Len(sel.columns)
        selT   == [i \in 1..kp |-> [r \in 1..NRows(cdata) |-> BoolNum(sel.rows[r][i])]]
        chosen(p, c) == Reshaped(selT, NRows(cdata), ncn, p, c)
        part(p, c, j) == Mul(Mul(chosen(p, c), factor(p, c)), content(p, j))
        need(p, c, j) ==
            LET x == Mul(Div(part(p, c, j), content(p, j)), Num(100))
            IN  IF IsNaN(x) THEN Num(0) ELSE x
        raises ==
            \/ PreMixture_weight_percent_raises(w)
            \/ ~BroadcastOk(nmd, nmp)
            \/ nmf = 0
            \/ ReshapeRaises(npr, ncd, npn, ncn)
            \/ ~HasAll(pp.columns, <<"Premixture", "TotalWeight">>)
            \/ ReshapeRaises(npr, q, npn, nm + 1)
            \/ ~HasAll(cdata.columns, pnames)
            \/ ReshapeRaises(kp, NRows(cdata), npn, ncn)
    IN  [raises |-> raises,
         premixture |->
            IF raises THEN NoData
            ELSE [columns |-> mnames \o <<"Solvent">>,
                  rows    |-> [c \in 1..ncn |-> [j \in 1..(nm + 1) |->
                                 SumSeq([p \in 1..npn |-> part(p, c, j)])]]],
         required |->
            IF raises THEN NoData
            ELSE [columns |-> pnames,
                  rows    |-> [c \in 1..ncn |-> [p \in 1..npn |->
                                 MaxSeq([j \in 1..(nm + 1) |-> need(p, c, j)])]]]]

\* The mass balance shared by Weight.update_data (474-492) and
\* WeightPremixture.update_data (606-622).  target holds the target mass of
\* each material per row, total the row totals, supplied the masses (materials
\* and Solvent) to subtract (a frame, or NoData for the scalar 0.).  Each cell
\* is divided by the stock concentration of its material; Solvent is the rest.
MassBalance(w, target, total, supplied, digit) ==
    LET nm == Len(target.columns)
        solvent(r) == Sub(total[r], SumSkipNa(target.rows[r]))
        sub(r, j)  == IF IsNone(supplied) THEN Num(0) ELSE supplied.rows[r][j]
        lack(r) == [j \in 1..(nm + 1) |->
                       Sub(IF j <= nm THEN target.rows[r][j] ELSE solvent(r), sub(r, j))]
        mass(r) == [j \in 1..nm |->
                       Mul(Div(lack(r)[j],
                               Lookup(StockLabels(w), StockValues(w), target.columns[j])),
                           Num(100))]
    IN  [columns |-> target.columns \o <<"Solvent">>,
         rows    |-> [r \in 1..NRows(target) |->
                        [j \in 1..(nm + 1) |->
                            Round(IF j <= nm THEN mass(r)[j]
                                  ELSE Sub(SumSkipNa(lack(r)), SumSkipNa(mass(r))),
                                  digit)]]]

\* the cells of t scaled by the row totals: d[names].mul(d[total], axis=0).div(100)
TargetMass(t, names, total) ==
    LET sel == Select(t, names)
    IN  [columns |-> sel.columns,
         rows    |-> [r \in 1..NRows(sel) |-> [j \in 1..Len(sel.columns) |->
                        Div(Mul(sel.rows[r][j], Column(t, total)[r]), Num(100))]]]

\* a Weight that adds the computed masses to those its table already shows
\* instead of replacing them (what Weight.update_data does not do)
Weight_write_adding(w, all, target) ==
    IF ReindexRaises(all, target) THEN Raise(w)
    ELSE Set_weight_data(w,
             IF w.weight.data.columns # target
                    \/ NRows(w.weight.data) # NRows(all)
             THEN Reindex(all, target)
             ELSE [Reindex(all, target) EXCEPT !.rows =
                      [r \in 1..NRows(all) |->
                          [k \in 1..Len(target) |->
                              IF k = 1 THEN @[r][k]
                              ELSE Add(w.weight.data.rows[r][k], @[r][k])]]])

\* pd.concat([name, data], axis=1).reindex(columns=...) and the final
\* `self.data = ...` of Weight.update_data (493-500)
Weight_write(w, all, target) ==
    IF ReindexRaises(all, target) THEN Raise(w)
    ELSE Set_weight_data(w, Reindex(all, target))

\* a Weight that shows the premixture masses but does not take what they
\* supply off the materials and the Solvent (what update_data does not do)
Weight_balance_unsupplied(w, data, total, any, calc) ==
    LET cdata  == w.composition.data
        name   == [columns |-> <<"Composition">>,
                   rows    |-> [r \in 1..NRows(cdata) |->
                                   <<Column(cdata, "Composition")[r]>>]]
        out    == MassBalance(w, data, total, NoData, w.weight.digit)
    IN  IF \/ (any /\ calc.raises)
           \/ AlignRaises(data.columns \o <<"Solvent">>, StockLabels(w))
           \/ ~Has(cdata.columns, "Composition")
        THEN Raise(w)
        ELSE Weight_write(w,
                 ConcatCols(ConcatCols(name, out),
                            IF any THEN calc.required ELSE NoData),
                 <<"Composition">> \o w.material.names \o w.premixture.names
                     \o <<"Solvent">>)

\* Weight.update_data from the target masses on (468-500): data holds the
\* target mass of each material per composition, calc what calc_premixture
\* returns for it, any whether some composition uses a premixture
Weight_balance(w, data, total, any, calc) ==
    LET cdata  == w.composition.data
        name   == [columns |-> <<"Composition">>,
                   rows    |-> [r \in 1..NRows(cdata) |->
                                   <<Column(cdata, "Composition")[r]>>]]
        out    == MassBalance(w, data, total,
                              IF any THEN calc.premixture ELSE NoData,
                              w.weight.digit)
    IN  IF \/ (any /\ calc.raises)
           \/ AlignRaises(data.columns \o <<"Solvent">>, StockLabels(w))
           \/ ~Has(cdata.columns, "Composition")
        THEN Raise(w)
        ELSE Weight_write(w,
                 ConcatCols(ConcatCols(name, out),
                            IF any THEN calc.required ELSE NoData),
                 <<"Composition">> \o w.material.names \o w.premixture.names
                     \o <<"Solvent">>)

\* the target masses: Composition.weight_percent scaled by the row totals
Weight_targets(w, cp) ==
    LET data == TargetMass(cp, w.material.names, "TotalWeight")
        any  == \E r \in 1..NRows(w.composition.data) :
                \E i \in 1..Len(w.premixture.names) :
                    Column(w.composition.data, w.premixture.names[i])[r]
    IN  Weight_balance(w, data, Column(cp, "TotalWeight"), any,
                       Weight_calc_premixture(w, data))

Weight_update_data(w) ==
    LET w0 == Called(w, "Weight.update_data")
        cp == Composition_weight_percent(w0)
    IN  IF Composition_weight_percent_raises(w0) THEN Raise(w0)
        ELSE IF ~HasAll(cp.columns, w0.material.names) \/ ~Has(cp.columns, "TotalWeight")
        THEN w0     \* except KeyError: return
        ELSE Weight_targets(w0, cp)

\* ------------------------------------------------------------------------
\* WeightPremixture (logic.py 559-629); k is the instance
\* ------------------------------------------------------------------------

Set_weightpremixture_data(w, k, d) == Set(w, k, "data", d)

WeightPremixture_write(w, k, all, target) ==
    IF ReindexRaises(all, target) THEN Raise(w)
    ELSE Set_weightpremixture_data(w, k, Reindex(all, target))

WeightPremixture_balance(w, k, pp) ==
    LET pdata  == w.premixture.data
        mnames == w.material.names
        data   == TargetMass(pp, mnames, "TotalWeight")
        name   == [columns |-> <<"Premixture">>,
                   rows    |-> [r \in 1..NRows(pdata) |-> <<Column(pdata, "Premixture")[r]>>]]
    IN  IF \/ AlignRaises(data.columns \o <<"Solvent">>, StockLabels(w))
           \/ ~Has(pdata.columns, "Premixture")
        THEN Raise(w)
        ELSE WeightPremixture_write(w, k,
                 ConcatCols(name, MassBalance(w, data, Column(pp, "TotalWeight"),
                                              NoData, w[k].digit)),
                 <<"Premixture">> \o mnames \o <<"Solvent">>)

WeightPremixture_update_data(w, k) ==
    LET w0 == Called(w, "WeightPremixture.update_data")
    IN  IF \/ IsNone(w0.premixture.data)
           \/ PreMixture_weight_percent_raises(w0)
           \/ ~Has(w0.premixture.data.columns, "TotalWeight")
        THEN Raise(w0)
        ELSE WeightPremixture_balance(w0, k, PreMixture_weight_percent(w0))

\* ------------------------------------------------------------------------
\* Composition (logic.py 271-409)
\* ------------------------------------------------------------------------

\* chr(ord("A") + i), chr(ord("a") + i)
Upper(i) == <<"A", "B", "C", "D", "E", "F", "G", "H">>[i + 1]

Lower(i) == <<"a", "b", "c", "d", "e", "f", "g", "h">>[i + 1]

\* the labels of s in order, each once: the keys of a dict built from s
RECURSIVE Distinct(_)
Distinct(s) ==
    IF s = <<>> THEN <<>>
    ELSE LET d == Distinct(SubSeq(s, 1, Len(s) - 1))
         IN  IF Has(d, s[Len(s)]) THEN d ELSE Append(d, s[Len(s)])

\* the keys of names that are no column yet
NewKeys(cols, names) == SelectSeq(Distinct(names), LAMBDA key : ~Has(cols, key))

\* pd.DataFrame({key: [v] * n for key in keys})
Filled(keys, n, v) ==
    [columns |-> keys, rows |-> [r \in 1..n |-> [k \in 1..Len(keys) |-> v]]]

\* the total column's label, from material.unit
TotalLabel(w) == IF w.material.unit = "wt%" THEN "TotalWeight" ELSE "TotalVolume"

\* the first n rows rule of resize_table:
\* data.iloc[i].to_list() if i < data.shape[0] else make_row(i)
Resized(t, n, new_row) ==
    [columns |-> t.columns,
     rows    |-> [i \in 1..n |-> IF i <= NRows(t) THEN t.rows[i] ELSE new_row[i]]]

\* pd.DataFrame(rows, columns=columns) raises unless every row has a cell per column
FrameRaises(t) == \E r \in 1..NRows(t) : Len(t.rows[r]) # Len(t.columns)

\* self.total = total, reached unless the write of data raised
Set_total(w, e, total) == IF w.exc THEN w ELSE [w EXCEPT ![e].total = total]

\* composition.names has no watcher
Set_composition_names(w, v) == Assign(w, "composition", "names", v)

Composition_update_names(w) ==
    LET w0    == Called(w, "Composition.update_names")
        data  == w0.composition.data
        names == IF IsNone(data) THEN <<>> ELSE Column(data, "Composition")
    IN  IF ~IsNone(data) /\ ~Has(data.columns, "Composition") THEN Raise(w0)
        ELSE IF names # w0.composition.names THEN Set_composition_names(w0, names)
        ELSE w0

Set_composition_data(w, d) == Set(w, "composition", "data", d)

Composition_make_row(w, i) ==
    <<Upper(i)>> \o [m \in 1..Len(w.material.names) |-> Num(0)]
                \o [p \in 1..Len(w.premixture.names) |-> FALSE]
                \o <<Num(100)>>

\* self.data = ....reindex(columns=...): the write raises, or data is written
Composition_write(w, all, target) ==
    IF ReindexRaises(all, target) THEN Raise(w)
    ELSE Set_composition_data(w, Reindex(all, target))

\* Composition.update_column when data is a table (350-380)
Composition_reconcile(w, data, total) ==
    LET mnames == w.material.names
        pnames == w.premixture.names
        n      == NRows(data)
        name   == Select(data, <<"Composition">>)
        weight == Select(data, <<total>>)
        value_old    == Drop(data, <<"Composition", total>>)
        value_append == Filled(NewKeys(data.columns, mnames), n, Num(0))
        bool_append  == Filled(NewKeys(data.columns, pnames), n, FALSE)
    IN  IF ~HasAll(data.columns, <<"Composition", total>>) THEN Raise(w)
        ELSE Set_total(
                 Composition_write(w,
                     ConcatCols(ConcatCols(ConcatCols(ConcatCols(
                         name, value_old), value_append), bool_append), weight),
                     <<"Composition">> \o mnames \o pnames \o <<total>>),
                 "composition", total)

\* Composition.update_column (331-380); without data it makes nrows rows first
Composition_update_column(w) ==
    LET w0 == Called(w, "Composition.update_column")
    IN  Composition_reconcile(w0,
            IF IsNone(w0.composition.data)
            THEN [columns |-> <<"Composition">> \o w0.material.names
                                  \o w0.premixture.names \o <<TotalLabel(w0)>>,
                  rows    |-> [i \in 1..w0.composition.nrows |->
                                  Composition_make_row(w0, i - 1)]]
            ELSE w0.composition.data,
            TotalLabel(w0))

Composition_resized(w, data) ==
    IF FrameRaises(data) THEN Raise(w) ELSE Set_composition_data(w, data)

\* PreMixture.resize_table (155-174), inherited, with Composition.make_row
Composition_resize_table(w) ==
    LET w0 == Called(w, "Composition.resize_table")
    IN  IF IsNone(w0.composition.data) THEN Raise(w0)
        ELSE Composition_resized(w0,
                 Resized(w0.composition.data, w0.composition.nrows,
                         [i \in 1..w0.composition.nrows |->
                             Composition_make_row(w0, i - 1)]))

\* ------------------------------------------------------------------------
\* PreMixture (logic.py 119-267)
\* ------------------------------------------------------------------------

Set_premixture_names(w, v) == Set(w, "premixture", "names", v)

PreMixture_update_names(w) ==
    LET w0    == Called(w, "PreMixture.update_names")
        data  == w0.premixture.data
        names == IF IsNone(data) THEN <<>> ELSE Column(data, "Premixture")
    IN  IF ~IsNone(data) /\ ~Has(data.columns, "Premixture") THEN Raise(w0)
        ELSE IF names # w0.premixture.names THEN Set_premixture_names(w0, names)
        ELSE w0

Set_premixture_data(w, d) == Set(w, "premixture", "data", d)

PreMixture_make_row(w, i) ==
    <<Lower(i)>> \o [m \in 1..NRows(w.material.data) |-> Num(0)] \o <<Num(100)>>

PreMixture_write(w, all, target) ==
    IF ReindexRaises(all, target) THEN Raise(w)
    ELSE Set_premixture_data(w, Reindex(all, target))

\* PreMixture.update_column when data is a table (211-233)
PreMixture_reconcile(w, data, total) ==
    LET mnames == w.material.names
        name   == Select(data, <<"Premixture">>)
        value_old    == Drop(data, <<"Premixture">>)
        value_append == Filled(NewKeys(data.columns, mnames), NRows(data), Num(0))
    IN  IF ~Has(data.columns, "Premixture") THEN Raise(w)
        ELSE Set_total(
                 PreMixture_write(w,
                     ConcatCols(ConcatCols(name, value_old), value_append),
                     <<"Premixture">> \o mnames \o <<total>>),
                 "premixture", total)

\* PreMixture.update_column (192-233); without data it makes nrows rows first
PreMixture_update_column(w) ==
    LET w0 == Called(w, "PreMixture.update_column")
    IN  PreMixture_reconcile(w0,
            IF IsNone(w0.premixture.data)
            THEN [columns |-> <<"Premixture">>
                                  \o Column(w0.material.data, "Material")
                                  \o <<TotalLabel(w0)>>,
                  rows    |-> [i \in 1..w0.premixture.nrows |->
                                  PreMixture_make_row(w0, i - 1)]]
            ELSE w0.premixture.data,
            TotalLabel(w0))

PreMixture_resized(w, data) ==
    IF FrameRaises(data) THEN Raise(w) ELSE Set_premixture_data(w, data)

PreMixture_resize_table(w) ==
    LET w0 == Called(w, "PreMixture.resize_table")
    IN  IF IsNone(w0.premixture.data) THEN Raise(w0)
        ELSE PreMixture_resized(w0,
                 Resized(w0.premixture.data, w0.premixture.nrows,
                         [i \in 1..w0.premixture.nrows |->
                             PreMixture_make_row(w0, i - 1)]))

\* ------------------------------------------------------------------------
\* SourceMaterial (logic.py 9-115)
\* ------------------------------------------------------------------------

Set_material_names(w, v) == Set(w, "material", "names", v)

\* an update_names that writes names whether or not they differ (what the
\* comparisons of lines 89-96 prevent)
SourceMaterial_update_names_always(w) ==
    Set_material_names(Called(w, "SourceMaterial.update_names"),
                       Column(w.material.data, "Material"))

SourceMaterial_update_names(w) ==
    LET w0    == Called(w, "SourceMaterial.update_names")
        names == Column(w0.material.data, "Material")
    IN  IF names # w0.material.names THEN Set_material_names(w0, names) ELSE w0

Set_material_data(w, d) == Set(w, "material", "data", d)

SourceMaterial_make_row(w, i) ==
    <<"Material " \o Upper(i)>>
        \o [k \in 1..(Len(w.material.columns) - 2) |-> "None"]
        \o <<Num(100)>>

SourceMaterial_resized(w, data) ==
    IF FrameRaises(data) THEN Raise(w) ELSE Set_material_data(w, data)

SourceMaterial_resize_table(w) ==
    LET w0 == Called(w, "SourceMaterial.resize_table")
    IN  SourceMaterial_resized(w0,
            Resized([columns |-> w0.material.columns, rows |-> w0.material.data.rows],
                    w0.material.nrows,
                    [i \in 1..w0.material.nrows |-> SourceMaterial_make_row(w0, i - 1)]))

\* ------------------------------------------------------------------------
\* Construction.  Parameterized.__init__ assigns the parameters, registers the
\* watchers of the new object and then calls its on_init methods in the order
\* of their definition in the class.  names=None is modelled as the empty
\* list: update_names writes the names in both cases, and nothing watches
\* them yet.
\* ------------------------------------------------------------------------

Entities ==
    {"material", "premixture", "composition", "weight", "weightpremixture",
     "work", "workpremixture", "result", "result_premixture",
     "own_weight_premixture", "own_work_premixture", "own_result_premixture"}

\* nothing constructed yet
Nothing ==
    [material              |-> [data |-> NoData, nrows |-> 3, names |-> <<>>,
                                unit |-> "wt%", columns |-> <<>>],
     premixture            |-> [data |-> NoData, nrows |-> 1, names |-> <<>>,
                                total |-> "None"],
     composition           |-> [data |-> NoData, nrows |-> 3, names |-> <<>>,
                                total |-> "None"],
     weight                |-> [data |-> NoData, digit |-> 2],
     weightpremixture      |-> [data |-> NoData, digit |-> 2],
     work                  |-> [data |-> NoData],
     workpremixture        |-> [data |-> NoData],
     result                |-> [data |-> NoData, result_premixture |-> "None"],
     result_premixture     |-> [data |-> NoData],
     own_weight_premixture |-> [data |-> NoData, digit |-> 2],
     own_work_premixture   |-> [data |-> NoData],
     own_result_premixture |-> [data |-> NoData],
     built |-> {},
     exc   |-> FALSE,
     log   |-> <<>>]

Built(w, e) == [w EXCEPT !.built = @ \cup {e}]

\* the unit modes
Units == {"wt%", "mM"}

\* SourceMaterial.make_column(None, unit), unit one of Units: columns += [unit]
\* unless unit is a column already (57-59), then
\* if (unit == 'M') and ('g/mol' not in columns): columns += ['g/mol'] (65-66)
SourceMaterial_make_column(unit) ==
    LET columns == IF unit = "wt%" THEN <<"Material", "Lot", "wt%">>
                   ELSE <<"Material", "Lot", "wt%", unit>>
    IN  IF unit = "M" /\ ~Has(columns, "g/mol") THEN Append(columns, "g/mol")
        ELSE columns

\* SourceMaterial(data, nrows, unit=...); nrows = 0 stands for nrows=None
SourceMaterial_init(w, data, nrows, unit) ==
    Fire(Fire(Built([w EXCEPT !.material =
                        [data |-> data,
                         nrows |-> IF nrows # 0 THEN nrows
                                   ELSE IF IsNone(data) THEN 3 ELSE NRows(data),
                         names |-> <<>>, unit |-> unit,
                         columns |-> SourceMaterial_make_column(unit)]],
                    "material"),
              "material", "SourceMaterial.resize_table"),
         "material", "SourceMaterial.update_names")

\* PreMixture(material, data, nrows=1)
PreMixture_init(w, data, nrows) ==
    Fire(Fire(Built([w EXCEPT !.premixture =
                        [data |-> data, nrows |-> nrows, names |-> <<>>,
                         total |-> "None"]],
                    "premixture"),
              "premixture", "PreMixture.update_names"),
         "premixture", "PreMixture.update_column")

\* Composition(material, premixture, data, nrows=3)
Composition_init(w, data, nrows) ==
    Fire(Fire(Built([w EXCEPT !.composition =
                        [data |-> data, nrows |-> nrows, names |-> <<>>,
                         total |-> "None"]],
                    "composition"),
              "composition", "Composition.update_names"),
         "composition", "Composition.update_column")

\* Composition(material, data=data, nrows=nrows) without a premixture argument
\* (307-309): it constructs PreMixture(material) for itself and then assigns
\* premixture.names = list()
Composition_init_alone(w, data, nrows) ==
    Composition_init(Set_premixture_names(PreMixture_init(w, NoData, 1), <<>>),
                     data, nrows)

\* Weight(composition, digit=2)
Weight_init(w, digit) ==
    Fire(Built([w EXCEPT !.weight = [data |-> NoData, digit |-> digit]], "weight"),
         "weight", "Weight.update_data")

\* WeightPremixture(premixture, digit=2)
WeightPremixture_init(w, k, digit) ==
    Fire(Built([w EXCEPT ![k] = [data |-> NoData, digit |-> digit]], k),
         k, "WeightPremixture.update_data")

\* Work(weight)
Work_init(w) == Fire(Built(w, "work"), "work", "Work.update_data")

\* WorkPreMixture(weight)
WorkPreMixture_init(w, k) ==
    Fire(Built(w, WorkOf(k)), WorkOf(k), "WorkPreMixture.update_data")

\* ResultPreMixture(work)
ResultPreMixture_init(w, k) ==
    Fire(Built(w, ResultOf(WorkOf(k))), ResultOf(WorkOf(k)), "ResultPreMixture.calc")

\* self.result_premixture = ..., once the chain is built
Set_result_premixture(w, v) ==
    IF w.exc THEN w ELSE [w EXCEPT !.result.result_premixture = v]

\* Result(work): without a result_premixture argument it builds its own
\* WeightPremixture -> WorkPreMixture -> ResultPreMixture chain and reads that
Result_init(w) ==
    Fire(Built(Set_result_premixture(
                   ResultPreMixture_init(
                       WorkPreMixture_init(
                           WeightPremixture_init(w, "own_weight_premixture", 2),
                           "own_weight_premixture"),
                       "own_weight_premixture"),
                   "own_result_premixture"),
               "result"),
         "result", "Result.calc")

\* main.py 57-65: the module-level session graph.  w holds, as the data and
\* nrows of material, premixture and composition and as the unit of material,
\* what is handed to their constructors (0 for nrows=None)
Session_build(w) ==
    ResultPreMixture_init(
      Result_init(
        WorkPreMixture_init(
          Work_init(
            WeightPremixture_init(
              Weight_init(
                Composition_init(
                  PreMixture_init(
                    SourceMaterial_init(Nothing, w.material.data, w.material.nrows,
                                        w.material.unit),
                    w.premixture.data, w.premixture.nrows),
                  w.composition.data, w.composition.nrows),
                2),
              "weightpremixture", 2)),
          "weightpremixture")),
      "weightpremixture")

\* the graph over a Composition constructed without a premixture:
\* SourceMaterial(), Composition(material), Weight(composition), Work(weight),
\* Result(work); no WeightPremixture, WorkPreMixture or ResultPreMixture is
\* constructed beside the chain Result builds for itself
Alone_build(w) ==
    Result_init(
      Work_init(
        Weight_init(
          Composition_init_alone(
            SourceMaterial_init(Nothing, w.material.data, w.material.nrows,
                                w.material.unit),
            w.composition.data, w.composition.nrows),
          2)))

\* ------------------------------------------------------------------------
\* The wiring: the watchers of each parameter (@param.depends(..., watch=True)),
\* in the order of their registration, and the methods by name
\* ------------------------------------------------------------------------

Watchers(w, e, p) ==
    CASE p = "nrows" /\ e = "material" ->
            Fire(w, "material", "SourceMaterial.resize_table")
      [] p = "nrows" /\ e = "premixture" ->
            Fire(w, "premixture", "PreMixture.resize_table")
      [] p = "nrows" /\ e = "composition" ->
            Fire(w, "composition", "Composition.resize_table")
      [] p = "digit" /\ e = "weight" ->
            Fire(w, "weight", "Weight.update_data")
      [] p = "digit" /\ e \in {"weightpremixture", "own_weight_premixture"} ->
            Fire(w, e, "WeightPremixture.update_data")
      [] p = "names" /\ e = "material" ->
            Fire(Fire(w, "premixture", "PreMixture.update_column"),
                 "composition", "Composition.update_column")
      [] p = "names" /\ e = "premixture" ->
            Fire(w, "composition", "Composition.update_column")
      [] p = "data" /\ e = "material" ->
            Fire(Fire(Fire(Fire(w, "material", "SourceMaterial.update_names"),
                           "weight", "Weight.update_data"),
                      "weightpremixture", "WeightPremixture.update_data"),
                 "own_weight_premixture", "WeightPremixture.update_data")
      [] p = "data" /\ e = "premixture" ->
            Fire(Fire(Fire(Fire(w, "premixture", "PreMixture.update_names"),
                           "weight", "Weight.update_data"),
                      "weightpremixture", "WeightPremixture.update_data"),
                 "own_weight_premixture", "WeightPremixture.update_data")
      [] p = "data" /\ e = "composition" ->
            Fire(Fire(w, "composition", "Composition.update_names"),
                 "weight", "Weight.update_data")
      [] p = "data" /\ e = "weight" ->
            Fire(w, "work", "Work.update_data")
      [] p = "data" /\ e \in {"weightpremixture", "own_weight_premixture"} ->
            Fire(w, WorkOf(e), "WorkPreMixture.update_data")
      [] p = "data" /\ e = "work" ->
            Fire(w, "result", "Result.calc")
      [] p = "data" /\ e \in {"workpremixture", "own_work_premixture"} ->
            Fire(w, ResultOf(e), "ResultPreMixture.calc")
      [] OTHER -> w

Run(w, e, m) ==
    CASE m \in {"data", "names", "nrows", "digit"} -> Watchers(w, e, m)
      [] m = "SourceMaterial.resize_table"   -> SourceMaterial_resize_table(w)
      [] m = "SourceMaterial.update_names"   -> SourceMaterial_update_names(w)
      [] m = "PreMixture.resize_table"       -> PreMixture_resize_table(w)
      [] m = "PreMixture.update_names"       -> PreMixture_update_names(w)
      [] m = "PreMixture.update_column"      -> PreMixture_update_column(w)
      [] m = "Composition.resize_table"      -> Composition_resize_table(w)
      [] m = "Composition.update_names"      -> Composition_update_names(w)
      [] m = "Composition.update_column"     -> Composition_update_column(w)
      [] m = "Weight.update_data"            -> Weight_update_data(w)
      [] m = "WeightPremixture.update_data"  -> WeightPremixture_update_data(w, ChainOf(e))
      [] m = "Work.update_data"              -> Work_update_data(w)
      [] m = "WorkPreMixture.update_data"    -> WorkPreMixture_update_data(w, ChainOf(e))
      [] m = "ResultPreMixture.calc"         -> ResultPreMixture_calc(w, ChainOf(e))
      [] m = "Result.calc"                   -> Result_calc(w)
      [] m = "main"                          -> Session_build(w)
      [] m = "Composition(material)"         -> Alone_build(w)

\* a session built from the tables and row counts handed to the constructors
Session(mdata, mnrows, pdata, pnrows, cdata, cnrows) ==
    Run([Nothing EXCEPT !.material.data = mdata, !.material.nrows = mnrows,
                        !.premixture.data = pdata, !.premixture.nrows = pnrows,
                        !.composition.data = cdata, !.composition.nrows = cnrows],
        "main", "main")

\* main.py: every constructor with its defaults
DefaultSession == Session(NoData, 0, NoData, 1, NoData, 3)

\* the same graph over SourceMaterial(unit=unit)
UnitSession(unit) ==
    Run([Nothing EXCEPT !.material.nrows = 0, !.material.unit = unit],
        "main", "main")

\* the graph over Composition(material), every other constructor with its
\* defaults
AloneSession ==
    Run([Nothing EXCEPT !.material.nrows = 0], "main", "Composition(material)")

\* ------------------------------------------------------------------------
\* State: the entities of the session, whether the last write raised to its
\* caller, the log of the last write, the number of writes so far, and which
\* of Work and WorkPreMixture held a measured value when the last write began
\* ------------------------------------------------------------------------

VARIABLES material, premixture, composition, weight, weightpremixture,
          work, workpremixture, result, result_premixture,
          own_weight_premixture, own_work_premixture, own_result_premixture,
          raised, trace, writes, logged

vars == <<material, premixture, composition, weight, weightpremixture,
          work, workpremixture, result, result_premixture,
          own_weight_premixture, own_work_premixture, own_result_premixture,
          raised, trace, writes, logged>>

\* the longest sequence of writes explored
MaxWrites == 2

\* the largest row count set on a table
MaxRows == 4

\* the session as a world, before a write
\* the entities the session never constructed: their tables are still None
\* once construction has returned
Absent ==
    {e \in {"weightpremixture", "workpremixture", "result_premixture"} :
        IsNone(weightpremixture.data) /\ IsNone(workpremixture.data)
            /\ IsNone(result_premixture.data)}

World ==
    [material              |-> material,
     premixture            |-> premixture,
     composition           |-> composition,
     weight                |-> weight,
     weightpremixture      |-> weightpremixture,
     work                  |-> work,
     workpremixture        |-> workpremixture,
     result                |-> result,
     result_premixture     |-> result_premixture,
     own_weight_premixture |-> own_weight_premixture,
     own_work_premixture   |-> own_work_premixture,
     own_result_premixture |-> own_result_premixture,
     built |-> Entities \ Absent,
     exc   |-> FALSE,
     log   |-> <<>>]

\* the session is w
Is(w) ==
    /\ material = w.material
    /\ premixture = w.premixture
    /\ composition = w.composition
    /\ weight = w.weight
    /\ weightpremixture = w.weightpremixture
    /\ work = w.work
    /\ workpremixture = w.workpremixture
    /\ result = w.result
    /\ result_premixture = w.result_premixture
    /\ own_weight_premixture = w.own_weight_premixture
    /\ own_work_premixture = w.own_work_premixture
    /\ own_result_premixture = w.own_result_premixture
    /\ raised = w.exc
    /\ trace = w.log

\* some value cell of t is set
AnySet(t) ==
    \E r \in 1..NRows(t) : \E j \in 2..Len(t.columns) : ~IsNaN(t.rows[r][j])

\* every value cell of t is unset
AllUnset(t) == ~AnySet(t)

\* the constructors returned, so there is a session to write to (a
\* constructor that raises ends the script)
Constructed == writes > 0 \/ ~raised

\* the write returns (or raises) and leaves the session as w
Becomes(w) ==
    /\ Constructed
    /\ writes < MaxWrites
    /\ writes' = writes + 1
    /\ logged' = {e \in {"work", "workpremixture"} : AnySet(World[e].data)}
    /\ material' = w.material
    /\ premixture' = w.premixture
    /\ composition' = w.composition
    /\ weight' = w.weight
    /\ weightpremixture' = w.weightpremixture
    /\ work' = w.work
    /\ workpremixture' = w.workpremixture
    /\ result' = w.result
    /\ result_premixture' = w.result_premixture
    /\ own_weight_premixture' = w.own_weight_premixture
    /\ own_work_premixture' = w.own_work_premixture
    /\ own_result_premixture' = w.own_result_premixture
    /\ raised' = w.exc
    /\ trace' = w.log

\* table t with the cell of row r under label c set to v
WithCell(t, r, c, v) ==
    [t EXCEPT !.rows[r] = [j \in 1..Len(t.columns) |->
                              IF t.columns[j] = c THEN v ELSE t.rows[r][j]]]

\* ------------------------------------------------------------------------
\* The writes of the operator (the mutation entry points the views bind to:
\* ui.py 78-85, 149-161, 269-272, 404-407, 463-466) as functions of the world
\* ------------------------------------------------------------------------

\* material.nrows = n  ->  SourceMaterial.resize_table
Write_material_nrows(w, n) == Set(w, "material", "nrows", n)

\* premixture.nrows = n  ->  PreMixture.resize_table
Write_premixture_nrows(w, n) == Set(w, "premixture", "nrows", n)

\* composition.nrows = n  ->  PreMixture.resize_table, inherited
Write_composition_nrows(w, n) == Set(w, "composition", "nrows", n)

\* weight.digit = d  ->  Weight.update_data
Write_weight_digit(w, d) == Set(w, "weight", "digit", d)

\* weightpremixture.digit = d  ->  WeightPremixture.update_data
Write_weightpremixture_digit(w, d) == Set(w, "weightpremixture", "digit", d)

\* an edit of one cell of a table writes the table
Edit_material(w, r, c, v) == Set_material_data(w, WithCell(w.material.data, r, c, v))

Edit_premixture(w, r, c, v) == Set_premixture_data(w, WithCell(w.premixture.data, r, c, v))

Edit_composition(w, r, c, v) ==
    Set_composition_data(w, WithCell(w.composition.data, r, c, v))

Edit_work(w, r, c, v) == Set_work_data(w, WithCell(w.work.data, r, c, v))

Edit_workpremixture(w, r, c, v) ==
    Set_workpremixture_data(w, "weightpremixture", WithCell(w.workpremixture.data, r, c, v))

\* The operator logs the measured masses cell by cell, each cell a write of
\* the table; Log(w, e, targets, k) is world w after the first k cells of
\* table e (row by row) were set to the values the table `targets` shows.
\* A target that is unset is left unset.
Log_cell(w, e, r, c, v) ==
    IF IsNaN(v) THEN w ELSE Set(w, e, "data", WithCell(w[e].data, r, c, v))

RECURSIVE Log(_, _, _, _)
Log(w, e, targets, k) ==
    IF k = 0 THEN w
    ELSE LET n == Len(targets.columns) - 1
             r == ((k - 1) \div n) + 1
             j == ((k - 1) % n) + 2
         IN  Log_cell(Log(w, e, targets, k - 1), e, r,
                      targets.columns[j], targets.rows[r][j])

\* every cell of Work (WorkPreMixture) set to its target
Log_work(w) ==
    Log(w, "work", w.weight.data,
        NRows(w.weight.data) * (Len(w.weight.data.columns) - 1))

Log_workpremixture(w) ==
    Log(w, "workpremixture", w.weightpremixture.data,
        NRows(w.weightpremixture.data) * (Len(w.weightpremixture.data.columns) - 1))

\* logic.py 846-850: a row appended by writing material.data directly
Append_material(w, name) ==
    Set_material_data(w, [w.material.data EXCEPT
        !.rows = Append(@, <<name, "None", Num(100)>>)])

\* ------------------------------------------------------------------------
\* What the operator enters
\* ------------------------------------------------------------------------

RowCounts == 1..MaxRows

\* names typed into a Material cell: the names resize_table synthesizes, and
\* one it never does
MaterialNameInputs == {"Material " \o Upper(i) : i \in 0..(MaxRows - 1)} \cup {"X"}

LotInputs == {"None", "L1"}

StockInputs == {Num(100), Num(50), Num(5)}

PremixtureNameInputs == {"x"}

PremixtureInputs == {Num(0), Num(20)}

CompositionNameInputs == {"Y"}

CompositionInputs == {Num(0), Num(10)}

TotalInputs == {Num(100), Num(200)}

DigitInputs == {0, 2}

WorkInputs == {Num(5)}

\* ------------------------------------------------------------------------
\* Actions: one write each, with everything it triggers
\* ------------------------------------------------------------------------

SetMaterialNrows ==
    \E n \in RowCounts :
        /\ n # material.nrows
        /\ Becomes(Write_material_nrows(World, n))

SetPremixtureNrows ==
    \E n \in RowCounts :
        /\ n # premixture.nrows
        /\ Becomes(Write_premixture_nrows(World, n))

SetCompositionNrows ==
    \E n \in RowCounts :
        /\ n # composition.nrows
        /\ Becomes(Write_composition_nrows(World, n))

SetDigit ==
    \E d \in DigitInputs :
        /\ d # weight.digit
        /\ Becomes(Write_weight_digit(World, d))

SetDigitPremixture ==
    \E d \in DigitInputs :
        /\ d # weightpremixture.digit
        /\ Becomes(Write_weightpremixture_digit(World, d))

\* a material is renamed to a name no other material carries
RenameMaterial ==
    \E r \in 1..NRows(material.data) : \E v \in MaterialNameInputs :
        /\ ~Has(Column(material.data, "Material"), v)
        /\ Becomes(Edit_material(World, r, "Material", v))

EditLot ==
    \E r \in 1..NRows(material.data) : \E v \in LotInputs :
        /\ Column(material.data, "Lot")[r] # v
        /\ Becomes(Edit_material(World, r, "Lot", v))

EditStock ==
    \E r \in 1..NRows(material.data) : \E v \in StockInputs :
        /\ Constructed
        /\ Column(material.data, "wt%")[r] # v
        /\ Becomes(Edit_material(World, r, "wt%", v))

AppendMaterial ==
    /\ NRows(material.data) < MaxRows
    /\ ~Has(Column(material.data, "Material"), "X")
    /\ Becomes(Append_material(World, "X"))

RenamePremixture ==
    \E r \in 1..NRows(premixture.data) : \E v \in PremixtureNameInputs :
        /\ ~Has(Column(premixture.data, "Premixture"), v)
        /\ Becomes(Edit_premixture(World, r, "Premixture", v))

\* the content of one material in one premixture
EditPremixture ==
    \E r \in 1..NRows(premixture.data) : \E c \in Range(material.names) :
    \E v \in PremixtureInputs :
        /\ Has(premixture.data.columns, c)
        /\ Column(premixture.data, c)[r] # v
        /\ Becomes(Edit_premixture(World, r, c, v))

EditPremixtureTotal ==
    \E r \in 1..NRows(premixture.data) : \E v \in TotalInputs :
        /\ Has(premixture.data.columns, "TotalWeight")
        /\ Column(premixture.data, "TotalWeight")[r] # v
        /\ Becomes(Edit_premixture(World, r, "TotalWeight", v))

RenameComposition ==
    \E r \in 1..NRows(composition.data) : \E v \in CompositionNameInputs :
        /\ ~Has(Column(composition.data, "Composition"), v)
        /\ Becomes(Edit_composition(World, r, "Composition", v))

\* the target concentration of one material in one composition
EditComposition ==
    \E r \in 1..NRows(composition.data) : \E c \in Range(material.names) :
    \E v \in CompositionInputs :
        /\ Has(composition.data.columns, c)
        /\ ~Has(premixture.names, c)
        /\ Column(composition.data, c)[r] # v
        /\ Becomes(Edit_composition(World, r, c, v))

\* the tick box of one premixture in one composition
SelectPremixture ==
    \E r \in 1..NRows(composition.data) : \E c \in Range(premixture.names) :
        /\ Has(composition.data.columns, c)
        /\ ~Has(material.names, c)
        /\ Becomes(Edit_composition(World, r, c, ~Column(composition.data, c)[r]))

EditCompositionTotal ==
    \E r \in 1..NRows(composition.data) : \E v \in TotalInputs :
        /\ Has(composition.data.columns, "TotalWeight")
        /\ Column(composition.data, "TotalWeight")[r] # v
        /\ Becomes(Edit_composition(World, r, "TotalWeight", v))

\* a measured mass entered in one cell of Work
EditWork ==
    \E r \in 1..NRows(work.data) : \E j \in 2..Len(work.data.columns) :
    \E v \in WorkInputs :
        /\ ~HasDup(work.data.columns)
        /\ work.data.rows[r][j] # v
        /\ Becomes(Edit_work(World, r, work.data.columns[j], v))

EditWorkPreMixture ==
    \E r \in 1..NRows(workpremixture.data) : \E j \in 2..Len(workpremixture.data.columns) :
    \E v \in WorkInputs :
        /\ ~HasDup(workpremixture.data.columns)
        /\ workpremixture.data.rows[r][j] # v
        /\ Becomes(Edit_workpremixture(World, r, workpremixture.data.columns[j], v))

\* the operator logs exactly what Weight asks for, in every cell of Work
LogWork ==
    /\ ~IsNone(weight.data) /\ ~IsNone(work.data)
    /\ work.data.columns = weight.data.columns
    /\ NRows(work.data) = NRows(weight.data)
    /\ ~HasDup(work.data.columns)
    /\ Becomes(Log_work(World))

\* ... and what WeightPremixture asks for, in every cell of WorkPreMixture
LogWorkPreMixture ==
    /\ ~IsNone(weightpremixture.data) /\ ~IsNone(workpremixture.data)
    /\ workpremixture.data.columns = weightpremixture.data.columns
    /\ NRows(workpremixture.data) = NRows(weightpremixture.data)
    /\ ~HasDup(workpremixture.data.columns)
    /\ Becomes(Log_workpremixture(World))

\* ------------------------------------------------------------------------
\* The session of main.py
\* ------------------------------------------------------------------------

Init == Is(DefaultSession) /\ writes = 0 /\ logged = {}

Next ==
    \/ SetMaterialNrows
    \/ SetPremixtureNrows
    \/ SetCompositionNrows
    \/ SetDigit
    \/ SetDigitPremixture
    \/ RenameMaterial
    \/ EditLot
    \/ EditStock
    \/ AppendMaterial
    \/ RenamePremixture
    \/ EditPremixture
    \/ EditPremixtureTotal
    \/ RenameComposition
    \/ EditComposition
    \/ SelectPremixture
    \/ EditCompositionTotal
    \/ EditWork
    \/ EditWorkPreMixture

Spec == Init /\ [][Next]_vars

\* ------------------------------------------------------------------------
\* A session built from supplied tables, as the example at the end of
\* logic.py (813-851) builds one: SourceMaterial(data=...),
\* PreMixture(data=..., material=...), Composition(data=..., ...)
\* ------------------------------------------------------------------------

\* the names of the supplied materials
SuppliedNames ==
    {<<"Material 1", "Material 2">>, <<"Material C", "Material B">>, <<"Material 1">>}

\* the stock concentration of the second material (the first is pure)
SuppliedStocks == {Num(50), Num(30)}

\* the content of the first material in the premixture, in percent
SuppliedContents == {Num(0), Num(10), Num(30)}

\* the target concentration of the first material in the first composition
SuppliedAmounts == {Num(1), Num(4)}

SuppliedMaterial(names, stock) ==
    [columns |-> <<"Material", "Lot", "wt%">>,
     rows    |-> [i \in 1..Len(names) |->
                    <<names[i], "None", IF i = 1 THEN Num(100) ELSE stock>>]]

\* the name of the premixture: one resize_table never synthesizes, and the
\* one it gives a second row
SuppliedPremixtureNames == {"Premixture a", "b"}

\* one premixture, of 500 g, holding the first material only
SuppliedPremixture(names, content, premix) ==
    [columns |-> <<"Premixture">> \o names \o <<"TotalWeight">>,
     rows    |-> << <<premix>>
                    \o [i \in 1..Len(names) |-> IF i = 1 THEN content ELSE Num(0)]
                    \o <<Num(500)>> >>]

\* two compositions: the first takes the first material from the premixture,
\* the second weighs 10 wt% of every material directly
SuppliedComposition(names, amount, premix) ==
    [columns |-> <<"Composition">> \o names \o <<premix, "TotalWeight">>,
     rows    |-> << <<"Composition 1">>
                    \o [i \in 1..Len(names) |-> IF i = 1 THEN amount ELSE Num(0)]
                    \o <<TRUE, Num(500)>>,
                    <<"Composition 2">>
                    \o [i \in 1..Len(names) |-> Num(10)]
                    \o <<FALSE, Num(200)>> >>]

\* the constructors' defaults for what is not supplied: nrows=None for
\* SourceMaterial, nrows=1 for PreMixture, nrows=3 for Composition
SuppliedSession(names, stock, content, amount, premix) ==
    Session(SuppliedMaterial(names, stock), 0,
            SuppliedPremixture(names, content, premix), 1,
            SuppliedComposition(names, amount, premix), 3)

InitSupplied ==
    \E names \in SuppliedNames : \E stock \in SuppliedStocks :
    \E content \in SuppliedContents : \E amount \in SuppliedAmounts :
    \E premix \in SuppliedPremixtureNames :
        /\ Is(SuppliedSession(names, stock, content, amount, premix))
        /\ writes = 0
        /\ logged = {}

NextSupplied ==
    \/ SetMaterialNrows
    \/ SetPremixtureNrows
    \/ SetCompositionNrows
    \/ SetDigit
    \/ SelectPremixture
    \/ LogWork
    \/ LogWorkPreMixture

SpecSupplied == InitSupplied /\ [][NextSupplied]_vars

\* ------------------------------------------------------------------------
\* Sessions over a SourceMaterial of either unit mode, and writes of its unit
\* ------------------------------------------------------------------------

\* material.unit = unit: a param.String nothing watches (logic.py 30)
Write_material_unit(w, unit) == Assign(w, "material", "unit", unit)

AssignUnit ==
    \E unit \in Units :
        /\ unit # material.unit
        /\ Becomes(Write_material_unit(World, unit))

InitUnit ==
    \E unit \in Units :
        /\ Is(UnitSession(unit))
        /\ writes = 0
        /\ logged = {}

NextUnit ==
    \/ AssignUnit
    \/ SetMaterialNrows
    \/ SetPremixtureNrows
    \/ SetCompositionNrows
    \/ RenameMaterial
    \/ EditStock
    \/ SelectPremixture

SpecUnit == InitUnit /\ [][NextUnit]_vars

\* ------------------------------------------------------------------------
\* The session over a Composition constructed without a premixture
\* ------------------------------------------------------------------------

InitAlone == Is(AloneSession) /\ writes = 0 /\ logged = {}

NextAlone ==
    \/ SetMaterialNrows
    \/ RenameMaterial
    \/ AppendMaterial
    \/ EditStock
    \/ SetCompositionNrows
    \/ EditComposition
    \/ EditCompositionTotal
    \/ SelectPremixture
    \/ SetDigit
    \/ EditWork

SpecAlone == InitAlone /\ [][NextAlone]_vars

\* ------------------------------------------------------------------------
\* main.py: save and load
\* ------------------------------------------------------------------------

\* list_logic_obj(): the objects of the classes of logic among the globals of
\* main.py, in the order of their definition (57-65)
LogicObjects ==
    <<"material", "premixture", "composition", "weight", "weightpremixture",
      "work", "workpremixture", "result", "result_premixture">>

ClassOf(e) ==
    CASE e = "material" -> "SourceMaterial"
      [] e = "premixture" -> "PreMixture"
      [] e = "composition" -> "Composition"
      [] e = "weight" -> "Weight"
      [] e = "weightpremixture" -> "WeightPremixture"
      [] e = "work" -> "Work"
      [] e = "workpremixture" -> "WorkPreMixture"
      [] e = "result" -> "Result"
      [] OTHER -> "ResultPreMixture"

\* obj.name: the class of the object followed by an ordinal
NameOf(e) == <<ClassOf(e), Pos(LogicObjects, e)>>

\* re.match(r'(?P<class>[^\d]+)\d+', name).group('class')
ClassIn(name) == name[1]

\* what column c of the table of e holds: text, ticks or numbers
KindOf(w, e, c, j) ==
    IF j = 1 \/ (e = "material" /\ c = "Lot") THEN "text"
    ELSE IF e = "composition" /\ Has(w.premixture.names, c) THEN "bool"
    ELSE "number"

\* DataFrame.to_json() writes floats with double_precision=10 decimals
JsonDigits == 10

\* d without its factors p, at most k of them
RECURSIVE Strip(_, _, _)
Strip(d, p, k) == IF k = 0 \/ d % p # 0 THEN d ELSE Strip(d \div p, p, k - 1)

\* x is written in full by JsonDigits decimals
Terminates(x) == Strip(Strip(x[2], 2, JsonDigits), 5, JsonDigits) = 1

JsonNull == [null |-> TRUE, v |-> "null"]

\* to_json of one cell: None, NaN and the infinities become null; a float is
\* cut to JsonDigits decimals (kept as the value marked with the digits left
\* when that changes it)
ToJsonCell(kind, x) ==
    CASE kind = "text" -> IF x \in {"None", "NaN"} THEN JsonNull
                          ELSE [null |-> FALSE, v |-> x]
      [] kind = "bool" -> [null |-> FALSE, v |-> x]
      [] OTHER -> IF ~IsFinite(x) THEN JsonNull
                  ELSE [null |-> FALSE,
                        v |-> IF Terminates(x) THEN x ELSE <<x[1], x[2], JsonDigits>>]

\* obj.data.to_json() (orient='columns')
ToJson(w, e) ==
    LET t == w[e].data
    IN  [columns |-> t.columns,
         kinds   |-> [j \in 1..Len(t.columns) |-> KindOf(w, e, t.columns[j], j)],
         rows    |-> [r \in 1..NRows(t) |-> [j \in 1..Len(t.columns) |->
                        ToJsonCell(KindOf(w, e, t.columns[j], j), t.rows[r][j])]]]

\* to_json raises for a table that is None and for one with two columns of
\* one name
Save_raises(w) ==
    \E i \in 1..Len(LogicObjects) :
        IsNone(w[LogicObjects[i]].data) \/ HasDup(w[LogicObjects[i]].data.columns)

\* save(): the file, each object's table under the object's name
Save(w) == [n \in {NameOf(LogicObjects[i]) : i \in 1..Len(LogicObjects)} |->
              ToJson(w, LogicObjects[CHOOSE i \in 1..Len(LogicObjects) :
                                        NameOf(LogicObjects[i]) = n])]

\* pd.read_json of one table: a null is NaN in a column of numbers, NaN as
\* well in a column that holds nothing but nulls (it converts to float64;
\* written "NaN" where the column held text), and None in a column that holds
\* text
ReadJson(j) ==
    LET allnull(c) == \A r \in 1..Len(j.rows) : j.rows[r][c].null
    IN  [columns |-> j.columns,
         rows    |-> [r \in 1..Len(j.rows) |-> [c \in 1..Len(j.columns) |->
                        IF ~j.rows[r][c].null THEN j.rows[r][c].v
                        ELSE IF j.kinds[c] = "number" THEN NaN
                        ELSE IF allnull(c) THEN "NaN" ELSE "None"]]]

\* values = {class: table for name, table in json.loads(value).items()}
ValuesOf(file) ==
    [c \in {ClassIn(n) : n \in DOMAIN file} |->
        file[CHOOSE n \in DOMAIN file : ClassIn(n) = c]]

\* for obj in logic_objects: obj.data = pd.read_json(...), from the i-th
\* object on; an exception of a watcher ends the loop
RECURSIVE Load_from(_, _, _)
Load_from(w, file, i) ==
    IF i > Len(LogicObjects) \/ w.exc THEN w
    ELSE Load_from(Set(w, LogicObjects[i], "data",
                       ReadJson(ValuesOf(file)[ClassOf(LogicObjects[i])])),
                   file, i + 1)

\* load(value)
Load(w, file) == Load_from(Called(w, "load"), file, 1)

\* the operator's write has returned or raised: the session goes on
Resumed(w) == [w EXCEPT !.exc = FALSE, !.log = <<>>]

\* the tables can be told column by column: Composition has the columns its
\* materials and premixtures give it
Saveable ==
    /\ Constructed
    /\ ~Save_raises(World)
    /\ composition.data.columns =
          <<"Composition">> \o material.names \o premixture.names \o <<composition.total>>

\* the operator saves and loads the file saved
SaveLoad ==
    /\ Saveable
    /\ Becomes(Load(World, Save(World)))

\* the operator saves, changes the number of materials, and loads the file
SaveResizeLoad ==
    \E n \in RowCounts :
        /\ Saveable
        /\ n # material.nrows
        /\ Becomes(Load(Resumed(Write_material_nrows(World, n)), Save(World)))

NextLoad ==
    \/ SaveLoad
    \/ SaveResizeLoad
    \/ EditLot
    \/ EditStock
    \/ EditComposition
    \/ SelectPremixture
    \/ EditWork
    \/ EditWorkPreMixture

SpecLoad == Init /\ [][NextLoad]_vars

\* ------------------------------------------------------------------------
\* Properties
\* ------------------------------------------------------------------------

\* the last write assigned parameter p (possibly among others)
Wrote(p) == Has(trace, p)

\* the columns each table has when it follows the current names
ExpectedColumns ==
    [premixture        |-> <<"Premixture">> \o material.names \o <<"TotalWeight">>,
     composition       |-> <<"Composition">> \o material.names \o premixture.names
                               \o <<"TotalWeight">>,
     weight            |-> <<"Composition">> \o material.names \o premixture.names
                               \o <<"Solvent">>,
     work              |-> <<"Composition">> \o material.names \o premixture.names
                               \o <<"Solvent">>,
     weightpremixture  |-> <<"Premixture">> \o material.names \o <<"Solvent">>,
     workpremixture    |-> <<"Premixture">> \o material.names \o <<"Solvent">>,
     result            |-> <<"Composition">> \o material.names,
     result_premixture |-> <<"Premixture">> \o material.names]

Follows(e) == World[e].data.columns = ExpectedColumns[e]

\* the last write returned, and Weight is the table of the current
\* compositions under the current, pairwise distinct, names
WeightCurrent ==
    /\ ~raised
    /\ Follows("composition") /\ Follows("weight") /\ Follows("premixture")
    /\ ~HasDup(ExpectedColumns.weight)
    /\ Column(weight.data, "Composition") = Column(composition.data, "Composition")
    /\ Column(premixture.data, "Premixture") = premixture.names

\* composition r selects no premixture
Unticked(r) ==
    \A i \in 1..Len(premixture.names) :
        ~Column(composition.data, premixture.names[i])[r]

\* n halves of the unit of the last of `digit` decimals
Slack(n, digit) == Div(Num(n), Num(2 * Pow10(digit)))

\* the masses Weight shows for the materials of composition r
Masses(r) ==
    [i \in 1..Len(material.names) |-> Column(weight.data, material.names[i])[r]]

\* C1: for every composition that selects no premixture, with every stock
\* concentration above 0, the material masses of Weight plus its Solvent sum
\* to the composition's TotalWeight, up to the rounding of each of the cells
\* to `digit` decimals
C1_MassBalance ==
    (WeightCurrent /\ \A i \in 1..NRows(material.data) :
                         Less(Num(0), Column(material.data, "wt%")[i]))
    => \A r \in 1..NRows(composition.data) :
           Unticked(r) =>
               Leq(AbsNum(Sub(Add(SumSeq(Masses(r)), Column(weight.data, "Solvent")[r]),
                              Column(composition.data, "TotalWeight")[r])),
                   Slack(Len(material.names) + 1, weight.digit))

\* the last write set material.nrows
ResizedMaterial == trace # <<>> /\ trace[1] = "material.nrows"

\* C2: when a material is added to or removed from SourceMaterial, a
\* PreMixture table that followed the material names keeps its rows, its
\* names, its totals and the amounts of every material that stays, each
\* added material gets one zero-filled column, and the columns of the
\* removed materials, and only those, go
C2_ReconciliationPreservesValues ==
    [][(ResizedMaterial' /\ Follows("premixture")) =>
        LET old == premixture.data
            new == premixture.data'
            n   == Len(material.names)
            m   == Len(material.names')
        IN  /\ new.columns = <<"Premixture">> \o material.names' \o <<"TotalWeight">>
            /\ NRows(new) = NRows(old)
            /\ \A r \in 1..NRows(old) :
                   /\ new.rows[r][1] = old.rows[r][1]
                   /\ new.rows[r][m + 2] = old.rows[r][n + 2]
                   /\ \A j \in 1..m :
                          new.rows[r][j + 1] = IF j <= n THEN old.rows[r][j + 1]
                                               ELSE Num(0)
       ]_vars

\* every numeric cell of the table holds a number
Defined(t) ==
    \A r \in 1..NRows(t) : \A c \in 2..Len(t.columns) : IsFinite(t.rows[r][c])

\* every target is a number and the work tables equal the targets, cell
\* for cell
WorkedToTarget ==
    /\ WeightCurrent
    /\ Defined(weight.data) /\ Defined(weightpremixture.data)
    /\ work.data = weight.data
    /\ workpremixture.data = weightpremixture.data
    /\ Follows("result")
    /\ Column(result.data, "Composition") = Column(composition.data, "Composition")

\* C3: when every cell of Work and of WorkPreMixture holds exactly its
\* target, Result shows, for every composition (with or without a selected
\* premixture) and every material, the target concentration of Composition,
\* to within one unit of the last of `digit` decimals
C3_ResultRoundTrip ==
    WorkedToTarget =>
        \A r \in 1..NRows(composition.data) : \A i \in 1..Len(material.names) :
            Leq(AbsNum(Sub(Column(result.data, material.names[i])[r],
                           Column(composition.data, material.names[i])[r])),
                Slack(2, weight.digit))

\* Result is the table of the current Work
ResultCurrent ==
    /\ WeightCurrent
    /\ Follows("work") /\ Follows("result")
    /\ Column(work.data, "Composition") = Column(composition.data, "Composition")
    /\ Column(result.data, "Composition") = Column(composition.data, "Composition")

\* no premixture supplies composition r: none is selected and none was
\* weighed in
Unsupplied(r) ==
    /\ Unticked(r)
    /\ \A i \in 1..Len(premixture.names) :
           IsNaN(Column(work.data, premixture.names[i])[r])

\* C4: for a composition that no premixture supplies, a material whose Work
\* cell is unset has an unset Result cell, whatever the other cells of the
\* Work row (the other materials, Solvent) hold
C4_UnsetPropagation ==
    ResultCurrent =>
        \A r \in 1..NRows(composition.data) : \A i \in 1..Len(material.names) :
            (Unsupplied(r) /\ IsNaN(Column(work.data, material.names[i])[r]))
            => IsNaN(Column(result.data, material.names[i])[r])

\* composition r selects premixture k and no other
TicksOnly(r, k) ==
    \A i \in 1..Len(premixture.names) :
        Column(composition.data, premixture.names[i])[r] = (i = k)

\* premixture k contains material i and no other material
SuppliesOnly(k, i) ==
    \A j \in 1..Len(material.names) :
        IF j = i THEN Less(Num(0), Column(premixture.data, material.names[j])[k])
        ELSE IsZero(Column(premixture.data, material.names[j])[k])

\* the mass of material i that composition r asks for
Requested(r, i) ==
    Div(Mul(Column(composition.data, material.names[i])[r],
            Column(composition.data, "TotalWeight")[r]), Num(100))

\* C5: when a composition selects one premixture only, that premixture
\* supplies one material M only, and the requested mass of M is positive and
\* can be supplied within the composition's total, the premixture mass in
\* Weight times the premixture's percent content of M / 100 is the requested
\* mass of M, up to the rounding of the premixture mass
C5_PremixtureAllocation ==
    WeightCurrent =>
        \A r \in 1..NRows(composition.data) : \A k \in 1..Len(premixture.names) :
        \A i \in 1..Len(material.names) :
            LET content == Column(premixture.data, material.names[i])[k]
                mass    == Column(weight.data, premixture.names[k])[r]
            IN  (/\ TicksOnly(r, k) /\ SuppliesOnly(k, i)
                 /\ Less(Num(0), Requested(r, i))
                 /\ Leq(Div(Mul(Requested(r, i), Num(100)), content),
                        Column(composition.data, "TotalWeight")[r]))
                => Leq(AbsNum(Sub(Div(Mul(mass, content), Num(100)), Requested(r, i))),
                       Slack(1, weight.digit))

\* C6: whenever a write recomputes Weight, every value cell of Work is unset
\* when the write returns, and whenever it recomputes WeightPremixture, every
\* value cell of WorkPreMixture is unset, whatever the operator had entered
C6_WorkVolatility ==
    /\ Wrote("weight.data") => AllUnset(work.data)
    /\ Wrote("weightpremixture.data") => AllUnset(workpremixture.data)

\* the operator had entered a value in Work, and the last write recomputed
\* Weight and returned
C6_Witness ==
    /\ "work" \in logged
    /\ Wrote("weight.data")
    /\ ~raised

\* C7: in every state reached by a write that returned, each table has
\* exactly the columns its upstream names call for
C7_ColumnSetConsistency ==
    ~raised => \A e \in DOMAIN ExpectedColumns : Follows(e)

\* the old and the new names differ at position i only, by a rename
Renamed(old, new, i) ==
    /\ Len(old) = Len(new) /\ i \in 1..Len(old)
    /\ old[i] # new[i]
    /\ \A j \in 1..Len(old) : j # i => old[j] = new[j]
    /\ ~Has(old, new[i]) /\ ~HasDup(old)

\* table `new` has under the name `to` the values table `old` had under
\* `from`, and nothing under `from`
Carried(old, new, from, to) ==
    /\ Has(new.columns, to) /\ ~Has(new.columns, from)
    /\ Has(old.columns, from) => Column(new, to) = Column(old, from)

\* C8: when a write renames one material, PreMixture and Composition end
\* with a column of the new name holding what the column of the old name
\* held, and none of the old name; when it renames one premixture,
\* Composition does
C8_RenamePropagation ==
    [][/\ \A i \in 1..Len(material.names) :
              Renamed(material.names, material.names', i) =>
                  /\ Carried(premixture.data, premixture.data',
                             material.names[i], material.names'[i])
                  /\ Carried(composition.data, composition.data',
                             material.names[i], material.names'[i])
       /\ \A k \in 1..Len(premixture.names) :
              Renamed(premixture.names, premixture.names', k) =>
                  Carried(composition.data, composition.data',
                          premixture.names[k], premixture.names'[k])
      ]_vars

\* C9: in every state the tables of SourceMaterial, PreMixture and
\* Composition have as many rows as their own nrows
C9_RowCountEqualsNrows ==
    /\ NRows(material.data) = material.nrows
    /\ NRows(premixture.data) = premixture.nrows
    /\ NRows(composition.data) = composition.nrows

\* the last write set the nrows of entity e
Resizing(e) == trace # <<>> /\ trace[1] = e \o ".nrows"

\* table `new` has n rows, the first of them those of `old`, in order
KeptRows(old, new, n) ==
    /\ NRows(new) = n
    /\ \A r \in 1..n : r <= NRows(old) => new.rows[r] = old.rows[r]

\* the cell of row r of table t under column c
Cell(t, r, c) ==
    IF Has(t.columns, c) /\ r \in 1..NRows(t) THEN Column(t, c)[r] ELSE "missing"

\* C10: setting nrows to N keeps the first min(N, old) rows unchanged and
\* in order, and every appended row is the default row: SourceMaterial the
\* synthesized name, no lot, concentration 100; PreMixture the next
\* lowercase letter, every material 0, total 100; Composition every
\* material 0, every premixture unselected, total 100
C10_ResizeSemantics ==
    [][/\ Resizing("material")' =>
              /\ KeptRows(material.data, material.data', material.nrows')
              /\ \A r \in (NRows(material.data) + 1)..material.nrows' :
                     material.data'.rows[r] =
                         <<"Material " \o Upper(r - 1), "None", Num(100)>>
       /\ Resizing("premixture")' =>
              /\ KeptRows(premixture.data, premixture.data', premixture.nrows')
              /\ \A r \in (NRows(premixture.data) + 1)..premixture.nrows' :
                     /\ Cell(premixture.data', r, "Premixture") = Lower(r - 1)
                     /\ Cell(premixture.data', r, "TotalWeight") = Num(100)
                     /\ \A i \in 1..Len(material.names) :
                            Cell(premixture.data', r, material.names[i]) = Num(0)
       /\ Resizing("composition")' =>
              /\ KeptRows(composition.data, composition.data', composition.nrows')
              /\ \A r \in (NRows(composition.data) + 1)..composition.nrows' :
                     /\ Cell(composition.data', r, "TotalWeight") = Num(100)
                     /\ \A i \in 1..Len(material.names) :
                            Cell(composition.data', r, material.names[i]) = Num(0)
                     /\ \A k \in 1..Len(premixture.names) :
                            Cell(composition.data', r, premixture.names[k]) = FALSE
      ]_vars

\* how many times the last write ran recomputation m
Times(m) == Cardinality({i \in 1..Len(trace) : trace[i] = m})

\* the places of the log of the last write where recomputation m ran
Places(m) == {i \in 1..Len(trace) : trace[i] = m}

\* C11: a write recomputes Weight at most once, and only once PreMixture and
\* Composition have finished reconciling their columns for that write
C11_SingleTopologicalPass ==
    writes > 0 =>
        /\ Times("Weight.update_data") <= 1
        /\ \A i \in Places("Weight.update_data") :
               \A j \in Places("PreMixture.update_column")
                          \cup Places("Composition.update_column") : j < i

\* the session once Result.calc has run again, reading the ResultPreMixture
\* of the session
Recalculated ==
    Run([World EXCEPT !.result.result_premixture = "result_premixture"],
        "result", "Result.calc")

\* C12: when a write of WorkPreMixture's measured values has returned,
\* Result is the table that Result.calc yields from the current Work and the
\* current ResultPreMixture of the session
C12_ResultFollowsResultPreMixture ==
    (trace # <<>> /\ trace[1] = "workpremixture.data" /\ ~raised)
    => (~Recalculated.exc /\ result.data = Recalculated.result.data)

\* the row count set differs by one from the old one
ByOne(old, new) == new.nrows = old.nrows + 1 \/ new.nrows = old.nrows - 1

\* C13: a write that grows or shrinks SourceMaterial, PreMixture or
\* Composition by one row returns: no recomputation it triggers raises
C13_NoCascadeRaises ==
    [][(\/ Resizing("material")' /\ ByOne(material, material')
        \/ Resizing("premixture")' /\ ByOne(premixture, premixture')
        \/ Resizing("composition")' /\ ByOne(composition, composition'))
       => ~raised']_vars

\* C14: once Weight is recomputed, every material cell and every Solvent cell
\* of Weight is a number, neither infinite nor undefined
C14_NoArithmeticEdgeInWeight ==
    WeightCurrent =>
        \A r \in 1..NRows(weight.data) :
            /\ IsFinite(Cell(weight.data, r, "Solvent"))
            /\ \A i \in 1..Len(material.names) :
                   IsFinite(Cell(weight.data, r, material.names[i]))

\* the mass of material i for composition r by the stock correction
Corrected(r, i) ==
    Mul(Div(Requested(r, i), Column(material.data, "wt%")[i]), Num(100))

\* C15: for a composition that selects no premixture, the Weight cell of each
\* material is (percent * total / 100) / stock wt% * 100 and the Solvent cell
\* is the total minus the sum of these masses, each rounded to `digit`
\* decimals
C15_StockCorrection ==
    (WeightCurrent /\ Column(material.data, "Material") = material.names) =>
        \A r \in 1..NRows(composition.data) :
            Unticked(r) =>
                /\ \A i \in 1..Len(material.names) :
                       Cell(weight.data, r, material.names[i])
                           = Round(Corrected(r, i), weight.digit)
                /\ Cell(weight.data, r, "Solvent")
                       = Round(Sub(Column(composition.data, "TotalWeight")[r],
                                   SumSeq([i \in 1..Len(material.names) |->
                                              Corrected(r, i)])),
                               weight.digit)

\* the derived entities with the recomputation of each
Recomputations ==
    {<<"premixture", "PreMixture.update_column">>,
     <<"composition", "Composition.update_column">>,
     <<"weight", "Weight.update_data">>,
     <<"weightpremixture", "WeightPremixture.update_data">>,
     <<"result_premixture", "ResultPreMixture.calc">>,
     <<"result", "Result.calc">>}

\* the session after recomputation c is triggered
Once(c) == Run(World, c[1], c[2])

\* recomputation c triggered once more in the session `first` it returned to
\* gives the table it gave
Repeats(c, first) ==
    LET second == Run(first, c[1], c[2])
    IN  ~second.exc /\ second[c[1]].data = first[c[1]].data

\* C16: when the recomputation of a derived entity (column reconciliation of
\* PreMixture and of Composition, Weight, WeightPremixture, ResultPreMixture,
\* Result) returns, triggering it once more with nothing else written returns
\* too and leaves the entity's table as the first recomputation left it
C16_Idempotence ==
    \A c \in Recomputations : Once(c).exc \/ Repeats(c, Once(c))

\* the table on show is not what its recomputation gives, so the first
\* recomputation changes it
C16_Witness ==
    \E c \in Recomputations :
        ~Once(c).exc /\ Once(c)[c[1]].data # World[c[1]].data

\* the display names of the materials, by row
MaterialColumn(m) == Column(m.data, "Material")

\* C18: a resize of SourceMaterial, or a rename of one row to a name no row
\* has, of a table whose Material names are pairwise distinct leaves them
\* pairwise distinct
C18_UniqueMaterialNames ==
    [][(/\ ~HasDup(MaterialColumn(material))
        /\ \/ Resizing("material")'
           \/ \E i \in 1..NRows(material.data) :
                  Renamed(MaterialColumn(material), MaterialColumn(material'), i))
       => ~HasDup(MaterialColumn(material'))]_vars

\* C20: a write of SourceMaterial's table that leaves the Material column as
\* it was (an edit of Lot or of wt%) writes no names and reconciles no
\* columns, and PreMixture and Composition are after it what they were
C20_NamesOnlyOnChange ==
    [][(/\ trace' # <<>> /\ trace'[1] = "material.data"
        /\ MaterialColumn(material') = MaterialColumn(material))
       => /\ ~Has(trace', "material.names")
          /\ ~Has(trace', "PreMixture.update_column")
          /\ ~Has(trace', "Composition.update_column")
          /\ premixture' = premixture
          /\ composition' = composition]_vars

\* the last write was of SourceMaterial's table, update_names ran and wrote
\* no names
C20_Witness ==
    /\ trace # <<>> /\ trace[1] = "material.data"
    /\ Wrote("SourceMaterial.update_names")
    /\ ~Wrote("material.names")
    /\ ~raised

\* C17: a SourceMaterial just constructed in unit mode "mM" with the default
\* columns has "g/mol" among its columns and a cell under it in every row of
\* its table
C17_MolarMassColumn ==
    (writes = 0 /\ material.unit = "mM") =>
        /\ Has(material.columns, "g/mol")
        /\ Has(material.data.columns, "g/mol")
        /\ \A r \in 1..NRows(material.data) :
               Len(material.data.rows[r]) = Len(material.data.columns)

\* the label of the total column of table t, its last
TotalColumn(t) == t.columns[Len(t.columns)]

\* C19: no write changes the unit mode of SourceMaterial, nor the label of
\* the total column of PreMixture or of Composition
C19_UnitFixed ==
    [][/\ material'.unit = material.unit
       /\ TotalColumn(premixture'.data) = TotalColumn(premixture.data)
       /\ TotalColumn(composition'.data) = TotalColumn(composition.data)]_vars

\* composition r selects premixture k
Ticked(r, k) == Column(composition.data, premixture.names[k])[r] = TRUE

\* the ratios requested mass / premixture content of premixture k for
\* composition r that are defined and not zero, by material
Ratios(r, k) ==
    SelectSeq([i \in 1..Len(material.names) |->
                  Div(Requested(r, i),
                      Column(premixture.data, material.names[i])[k])],
              LAMBDA x : ~IsNaN(x) /\ ~IsZero(x))

\* C21: for a composition that selects a premixture, the limiting ratio (the
\* premixture mass Weight shows, over 100) is the least of the ratios
\* requested mass / premixture content that are defined and not zero, up to
\* the rounding of the premixture mass, whenever there is such a ratio
C21_NonLimitingRatios ==
    WeightCurrent =>
        \A r \in 1..NRows(composition.data) : \A k \in 1..Len(premixture.names) :
            (Ticked(r, k) /\ Ratios(r, k) # <<>> /\ IsFinite(MinSeq(Ratios(r, k))))
            => Leq(AbsNum(Sub(Cell(weight.data, r, premixture.names[k]),
                              Mul(MinSeq(Ratios(r, k)), Num(100)))),
                   Slack(1, weight.digit))

\* every stock concentration is above 0
StocksPositive ==
    \A i \in 1..NRows(material.data) : Less(Num(0), Column(material.data, "wt%")[i])

\* C22: with every stock concentration above 0, no material mass of Weight
\* is below zero: the selected premixtures of a composition together supply
\* no more of a material than the composition asks for
C22_NoOverSupply ==
    (WeightCurrent /\ StocksPositive) =>
        \A r \in 1..NRows(composition.data) : \A i \in 1..Len(material.names) :
            ~Less(Cell(weight.data, r, material.names[i]), Num(0))

\* the masses of Weight computed with no premixture supplying anything
WithoutPremixture ==
    MassBalance(World,
                TargetMass(Composition_weight_percent(World), material.names,
                           "TotalWeight"),
                Column(composition.data, "TotalWeight"), NoData, weight.digit)

\* C23: for a composition that selects no premixture, the material and
\* Solvent cells of Weight are those of the computation without premixtures,
\* whatever the other compositions select and the premixtures contain
C23_RowIndependence ==
    WeightCurrent =>
        \A r \in 1..NRows(composition.data) :
            Unticked(r) =>
                \A j \in 1..Len(WithoutPremixture.columns) :
                    Cell(weight.data, r, WithoutPremixture.columns[j])
                        = WithoutPremixture.rows[r][j]

\* sequence s with v put in at place k, and s without its place k
PutIn(s, k, v) == SubSeq(s, 1, k - 1) \o <<v>> \o SubSeq(s, k, Len(s))

TakeOut(s, k) == SubSeq(s, 1, k - 1) \o SubSeq(s, k + 1, Len(s))

\* the place in a Composition row of the column of the premixture after the
\* n first ones
TickPlace(n) == 1 + Len(material.names) + n + 1

\* the write made PreMixture one premixture longer, or one shorter
PremixtureAdded ==
    /\ Resizing("premixture")'
    /\ Len(premixture'.names) = Len(premixture.names) + 1
    /\ SubSeq(premixture'.names, 1, Len(premixture.names)) = premixture.names

PremixtureRemoved ==
    /\ Resizing("premixture")'
    /\ premixture.names # <<>>
    /\ premixture'.names = SubSeq(premixture.names, 1, Len(premixture.names) - 1)

\* C24: when a resize adds a premixture, a Composition table that followed
\* the names gets one column, named after the premixture and false in every
\* row, ahead of its total, and keeps every other cell and the order of its
\* rows; when a resize removes the last premixture, the table loses the
\* column of that premixture and nothing else
C24_CompositionReconciliation ==
    [][Follows("composition") =>
         /\ PremixtureAdded =>
               /\ composition'.data.columns
                      = PutIn(composition.data.columns,
                              TickPlace(Len(premixture.names)),
                              premixture'.names[Len(premixture'.names)])
               /\ composition'.data.rows
                      = [r \in 1..NRows(composition.data) |->
                            PutIn(composition.data.rows[r],
                                  TickPlace(Len(premixture.names)), FALSE)]
         /\ PremixtureRemoved =>
               /\ composition'.data.columns
                      = TakeOut(composition.data.columns,
                                TickPlace(Len(premixture.names) - 1))
               /\ composition'.data.rows
                      = [r \in 1..NRows(composition.data) |->
                            TakeOut(composition.data.rows[r],
                                    TickPlace(Len(premixture.names) - 1))]]_vars

\* C25: the ResultPreMixture that Result reads is the one of the session,
\* computed from the WorkPreMixture the operator fills in, and the table
\* Result reads is that one's table
C25_SessionWiring ==
    /\ result.result_premixture = "result_premixture"
    /\ World[result.result_premixture].data = result_premixture.data

\* an unset value counted as zero
ZeroIfUnset(x) == IF IsNaN(x) THEN Num(0) ELSE x

\* the sum of the measured cells of row r of table t
Measured(t, r) == SumSkipNa(SubSeq(t.rows[r], 2, Len(t.columns)))

\* the Result of material i in composition r by the formula, with the
\* premixture results of table res
ResultBy(res, r, i) ==
    Div(Add(SumSeq([p \in 1..Len(premixture.names) |->
                       ZeroIfUnset(Mul(Cell(work.data, r, premixture.names[p]),
                                       Cell(res, p, material.names[i])))]),
            Mul(Cell(work.data, r, material.names[i]),
                Column(material.data, "wt%")[i])),
        Measured(work.data, r))

\* Result is the table of the current Work, ResultPreMixture has a row for
\* every premixture, and the materials are those of SourceMaterial's table
ResultComputed ==
    /\ ResultCurrent
    /\ Wrote("Result.calc")
    /\ Follows("result_premixture")
    /\ Column(result_premixture.data, "Premixture") = premixture.names
    /\ Column(material.data, "Material") = material.names

\* C26: for every composition whose measured total is a number other than
\* zero and every material with a measured mass, Result is (the sum over the
\* premixtures of measured premixture mass * ResultPreMixture, an unset
\* product counted as zero, + measured mass * stock concentration) / the sum
\* of the measured cells of the row
C26_ResultFormula ==
    ResultComputed =>
        \A r \in 1..NRows(composition.data) : \A i \in 1..Len(material.names) :
            (/\ IsFinite(Measured(work.data, r)) /\ ~IsZero(Measured(work.data, r))
             /\ ~IsNaN(Cell(work.data, r, material.names[i])))
            => Cell(result.data, r, material.names[i])
                   = ResultBy(result_premixture.data, r, i)

\* ResultPreMixture is the table of the current WorkPreMixture
ResultPreMixtureCurrent ==
    /\ ~raised
    /\ Follows("workpremixture") /\ Follows("result_premixture")
    /\ ~HasDup(material.names)
    /\ Column(material.data, "Material") = material.names
    /\ Column(result_premixture.data, "Premixture")
           = Column(workpremixture.data, "Premixture")

\* C27: for every premixture and material, ResultPreMixture is measured mass
\* * stock concentration / the sum of the measured cells of the row; where
\* the measured mass is unset, and in a row without measured value, it is
\* unset
C27_ResultPreMixtureFormula ==
    ResultPreMixtureCurrent =>
        \A r \in 1..NRows(workpremixture.data) : \A i \in 1..Len(material.names) :
            /\ Cell(result_premixture.data, r, material.names[i])
                   = Div(Mul(Cell(workpremixture.data, r, material.names[i]),
                             Column(material.data, "wt%")[i]),
                         Measured(workpremixture.data, r))
            /\ IsNaN(Cell(workpremixture.data, r, material.names[i]))
                   => IsNaN(Cell(result_premixture.data, r, material.names[i]))

\* a premixture with one measured mass and one unset mass, recomputed
C27_Witness ==
    /\ ResultPreMixtureCurrent
    /\ Wrote("ResultPreMixture.calc")
    /\ \E r \in 1..NRows(workpremixture.data) : \E i, j \in 1..Len(material.names) :
           /\ IsFinite(Cell(result_premixture.data, r, material.names[i]))
           /\ IsNaN(Cell(workpremixture.data, r, material.names[j]))

\* WeightPremixture is the table of the current premixtures
WeightPremixtureCurrent ==
    /\ ~raised
    /\ Follows("premixture") /\ Follows("weightpremixture")
    /\ ~HasDup(material.names)
    /\ Column(material.data, "Material") = material.names
    /\ Column(weightpremixture.data, "Premixture")
           = Column(premixture.data, "Premixture")

\* the mass of material i to weigh for premixture r
PremixtureMass(r, i) ==
    Mul(Div(Div(Mul(Cell(premixture.data, r, material.names[i]),
                    Cell(premixture.data, r, "TotalWeight")),
                Num(100)),
            Column(material.data, "wt%")[i]),
        Num(100))

\* C28: with every stock concentration above 0, each material mass of
\* WeightPremixture is percent * total / 100 / stock concentration * 100,
\* rounded to `digit` decimals, and the material masses plus Solvent of each
\* premixture sum to its TotalWeight, up to the rounding of each of the cells
C28_WeightPremixtureBalance ==
    (WeightPremixtureCurrent /\ StocksPositive) =>
        \A r \in 1..NRows(premixture.data) :
            /\ \A i \in 1..Len(material.names) :
                   Cell(weightpremixture.data, r, material.names[i])
                       = Round(PremixtureMass(r, i), weightpremixture.digit)
            /\ Leq(AbsNum(Sub(Add(SumSeq([i \in 1..Len(material.names) |->
                                             Cell(weightpremixture.data, r,
                                                  material.names[i])]),
                                  Cell(weightpremixture.data, r, "Solvent")),
                              Cell(premixture.data, r, "TotalWeight"))),
                   Slack(Len(material.names) + 1, weightpremixture.digit))

\* a premixture that holds a material of a stock below 100 wt%, weighed
C28_Witness ==
    /\ WeightPremixtureCurrent /\ StocksPositive
    /\ Wrote("WeightPremixture.update_data")
    /\ \E r \in 1..NRows(premixture.data) : \E i \in 1..Len(material.names) :
           /\ Less(Num(0), Cell(premixture.data, r, material.names[i]))
           /\ Less(Column(material.data, "wt%")[i], Num(100))

\* x is a whole number of units of the last of `digit` decimals
Rounded(x, digit) == IsFinite(x) => Round(x, digit) = x

\* C29: after a recomputation of Weight that returns, every numeric cell of
\* its table (materials, premixtures and Solvent) is a multiple of
\* 10^-digit
C29_WeightRounded ==
    (~raised /\ Wrote("weight.data")) =>
        \A r \in 1..NRows(weight.data) : \A j \in 2..Len(weight.data.columns) :
            Rounded(weight.data.rows[r][j], weight.digit)

\* the parameters a cascade assigns, and the entity that owns each
Assignments == {e \o "." \o f : e \in Entities, f \in {"data", "names", "nrows", "digit"}}

Owner(a) == CHOOSE e \in Entities : \E f \in {"data", "names", "nrows", "digit"} : a = e \o "." \o f

\* <<u, d>>: a method of d is declared to depend on a parameter of u
Feeds ==
    {<<"material", "premixture">>, <<"material", "composition">>,
     <<"premixture", "composition">>,
     <<"material", "weight">>, <<"premixture", "weight">>, <<"composition", "weight">>,
     <<"material", "weightpremixture">>, <<"premixture", "weightpremixture">>,
     <<"material", "own_weight_premixture">>, <<"premixture", "own_weight_premixture">>,
     <<"weight", "work">>, <<"work", "result">>,
     <<"weightpremixture", "workpremixture">>, <<"workpremixture", "result_premixture">>,
     <<"own_weight_premixture", "own_work_premixture">>,
     <<"own_work_premixture", "own_result_premixture">>}

\* the entities reached from those of `es` in at most n steps along Feeds
RECURSIVE Reached(_, _)
Reached(es, n) ==
    IF n = 0 THEN es
    ELSE Reached(es \cup {d \in Entities : \E u \in es : <<u, d>> \in Feeds}, n - 1)

\* e and everything downstream of it
Downstream(e) == Reached({e}, Cardinality(Entities))

\* the methods watching an assigned parameter
Watching(a) ==
    CASE a \in {"material.nrows"} -> {"SourceMaterial.resize_table"}
      [] a \in {"premixture.nrows"} -> {"PreMixture.resize_table"}
      [] a \in {"composition.nrows"} -> {"Composition.resize_table"}
      [] a = "material.data" ->
            {"SourceMaterial.update_names", "Weight.update_data", "WeightPremixture.update_data"}
      [] a = "premixture.data" ->
            {"PreMixture.update_names", "Weight.update_data", "WeightPremixture.update_data"}
      [] a = "composition.data" -> {"Composition.update_names", "Weight.update_data"}
      [] a = "material.names" -> {"PreMixture.update_column", "Composition.update_column"}
      [] a = "premixture.names" -> {"Composition.update_column"}
      [] a = "weight.digit" -> {"Weight.update_data"}
      [] a \in {"weightpremixture.digit", "own_weight_premixture.digit"} ->
            {"WeightPremixture.update_data"}
      [] a = "weight.data" -> {"Work.update_data"}
      [] a \in {"weightpremixture.data", "own_weight_premixture.data"} ->
            {"WorkPreMixture.update_data"}
      [] a = "work.data" -> {"Result.calc"}
      [] a \in {"workpremixture.data", "own_work_premixture.data"} ->
            {"ResultPreMixture.calc"}
      [] OTHER -> {}

\* how many times x occurs in the log s
Occurrences(s, x) == Cardinality({i \in 1..Len(s) : s[i] = x})

\* C30: the cascade of one write is finite (no parameter is assigned more
\* often than there are entities), it assigns nothing upstream of the
\* parameter written, and when the write returns every method watching an
\* assigned parameter has run after the assignment: nothing is pending
C30_CascadeTermination ==
    writes > 0 =>
        /\ trace[1] \in Assignments
        /\ \A i \in 1..Len(trace) :
              trace[i] \in Assignments =>
                /\ Owner(trace[i]) \in Downstream(Owner(trace[1]))
                /\ Occurrences(trace, trace[i]) <= Cardinality(Entities)
                /\ ~raised => \A m \in Watching(trace[i]) :
                                  \E j \in (i + 1)..Len(trace) : trace[j] = m

\* a write whose cascade passed through several entities and returned
C30_Witness ==
    /\ writes > 0
    /\ ~raised
    /\ trace[1] = "premixture.nrows"
    /\ Wrote("premixture.names")
    /\ Wrote("composition.data")
    /\ Wrote("result.data")

\* the methods of the entity e
Methods(e) ==
    CASE e = "material" -> {"SourceMaterial.resize_table", "SourceMaterial.update_names"}
      [] e = "premixture" ->
            {"PreMixture.resize_table", "PreMixture.update_names", "PreMixture.update_column"}
      [] e = "composition" ->
            {"Composition.resize_table", "Composition.update_names",
             "Composition.update_column"}
      [] e = "weight" -> {"Weight.update_data"}
      [] e \in {"weightpremixture", "own_weight_premixture"} -> {"WeightPremixture.update_data"}
      [] e = "work" -> {"Work.update_data"}
      [] e \in {"workpremixture", "own_work_premixture"} -> {"WorkPreMixture.update_data"}
      [] e = "result" -> {"Result.calc"}
      [] OTHER -> {"ResultPreMixture.calc"}

\* every assignment of the log, but for the operator's own write at its head,
\* is made by a method of the entity that owns the parameter assigned
OwnWrites ==
    \A i \in 1..Len(trace) :
        (trace[i] \in Assignments /\ (i > 1 \/ writes = 0)) =>
            /\ i > 1
            /\ trace[i - 1] \in Methods(Owner(trace[i]))

\* the entities that are not downstream of e keep their fields
KeptOutside(e) ==
    /\ "material" \notin Downstream(e) => material' = material
    /\ "premixture" \notin Downstream(e) => premixture' = premixture
    /\ "composition" \notin Downstream(e) => composition' = composition
    /\ "weight" \notin Downstream(e) => weight' = weight
    /\ "weightpremixture" \notin Downstream(e) => weightpremixture' = weightpremixture
    /\ "work" \notin Downstream(e) => work' = work
    /\ "workpremixture" \notin Downstream(e) => workpremixture' = workpremixture

\* C31: in construction and in every cascade each parameter is assigned by a
\* method of its own entity, and a write leaves every entity that is not
\* downstream of the parameter written as it was (a write to Work or
\* WorkPreMixture leaves SourceMaterial, PreMixture, Composition, Weight and
\* WeightPremixture unchanged)
C31_OwnershipOfWrites ==
    /\ []OwnWrites
    /\ [][(writes' > writes /\ trace'[1] \in Assignments) =>
              KeptOutside(Owner(trace'[1]))]_vars

\* the columns of Composition named after a row of the PreMixture it holds
PremixtureColumns ==
    IF IsNone(premixture.data) \/ ~Has(premixture.data.columns, "Premixture") THEN {}
    ELSE {c \in Range(composition.data.columns) :
            /\ Has(Column(premixture.data, "Premixture"), c)
            /\ ~Has(material.names, c)}

\* C34: a Composition constructed without a premixture argument has no
\* premixture column, whatever is done to SourceMaterial afterwards
C34_NoPremixtureColumn == PremixtureColumns = {}

\* some composition selects some premixture: Weight runs calc_premixture
AnyTicked ==
    \E r \in 1..NRows(composition.data) : ~Unticked(r)

\* nothing but zero is divided by zero for composition r: every stock
\* concentration is above 0 and, when calc_premixture runs, a material that a
\* premixture holds none of is one the composition asks none of
NoZeroDivision(r) ==
    /\ StocksPositive
    /\ AnyTicked =>
          \A k \in 1..NRows(premixture.data) : \A i \in 1..Len(material.names) :
              IsZero(Column(premixture.data, material.names[i])[k]) =>
                  IsZero(Requested(r, i))

\* the masses Weight shows of the premixtures for composition r, an unset
\* cell counted as zero
PremixtureMasses(r) ==
    [k \in 1..Len(premixture.names) |->
        ZeroIfUnset(Column(weight.data, premixture.names[k])[r])]

StocksInRange ==
    \A i \in 1..NRows(material.data) :
        /\ Less(Num(0), Column(material.data, "wt%")[i])
        /\ Leq(Column(material.data, "wt%")[i], Num(100))

\* the percentages composition r asks of the materials
Percentages(r) ==
    [i \in 1..Len(material.names) |-> Column(composition.data, material.names[i])[r]]

\* C35: with no premixture selected and every stock concentration in
\* (0, 100], a composition whose percentages are not negative and sum to at
\* most 100 has no negative material mass and no negative Solvent in Weight
C35_NonNegativeTargets ==
    (WeightCurrent /\ ~AnyTicked /\ StocksInRange) =>
        \A r \in 1..NRows(composition.data) :
            (/\ \A i \in 1..Len(material.names) : Leq(Num(0), Percentages(r)[i])
             /\ Leq(SumSeq(Percentages(r)), Num(100))) =>
                /\ \A i \in 1..Len(material.names) : Leq(Num(0), Masses(r)[i])
                /\ Leq(Num(0), Column(weight.data, "Solvent")[r])

\* the step is a load of the file saved in the state it leaves
Loading == trace' # <<>> /\ trace'[1] = "load"

\* the tables of the operator's measurements are as they were
MeasurementsKept ==
    /\ work'.data = work.data
    /\ workpremixture'.data = workpremixture.data

\* C32: after save and load of the file saved, every entity's table is the
\* table that was saved, the values the operator entered in Work and
\* WorkPreMixture included
C32_SaveLoadRoundTrip ==
    [][Loading =>
          /\ material'.data = material.data
          /\ premixture'.data = premixture.data
          /\ composition'.data = composition.data
          /\ weight'.data = weight.data
          /\ weightpremixture'.data = weightpremixture.data
          /\ MeasurementsKept
          /\ result'.data = result.data
          /\ result_premixture'.data = result_premixture.data]_vars

====
